---------------------------- MODULE Spec2Model ----------------------------
(***************************************************************************)
(* cURL-to-code converter of the dev-tools site: the command parser        *)
(* (parseCurl) as a state machine over its token cursor, and the five code *)
(* generators as operators over the parsed model.                          *)
(*                                                                         *)
(* Strings are TLA+ strings; TLC evaluates Len, SubSeq, Head, Tail and \o  *)
(* on them, so the string functions of the source are computed character   *)
(* by character.  A value that may be null is NULL or Some(s).             *)
(***************************************************************************)
EXTENDS Integers, Sequences, FiniteSets, TLC

-----------------------------------------------------------------------------
(* Bounds of the model *)

\* longest token array the cursor walks (tokens.length <= MaxTokens)
MaxTokens == 6

\* most header-writing flags behind a model handed to the generators
MaxHeaderFlags == 2

-----------------------------------------------------------------------------
(* JavaScript values and string functions *)

NULL == [null |-> TRUE]
Some(s) == [val |-> s]

\* JS truthiness of a `string | null` value: null and "" are falsy
Truthy(v) == v /= NULL /\ v.val /= ""

CharAt(s, k) == SubSeq(s, k, k)

UpperLetters == "ABCDEFGHIJKLMNOPQRSTUVWXYZ"
LowerLetters == "abcdefghijklmnopqrstuvwxyz"

\* 1-based position of the one-character string c in s, 0 when absent
RECURSIVE PosFrom(_, _, _)
PosFrom(s, c, k) ==
    IF k > Len(s) THEN 0
    ELSE IF CharAt(s, k) = c THEN k
    ELSE PosFrom(s, c, k + 1)

LowerChar(c) ==
    LET p == PosFrom(UpperLetters, c, 1)
    IN  IF p = 0 THEN c ELSE CharAt(LowerLetters, p)

UpperChar(c) ==
    LET p == PosFrom(LowerLetters, c, 1)
    IN  IF p = 0 THEN c ELSE CharAt(UpperLetters, p)

RECURSIVE toLowerCase(_)
toLowerCase(s) ==
    IF s = "" THEN "" ELSE LowerChar(Head(s)) \o toLowerCase(Tail(s))

RECURSIVE toUpperCase(_)
toUpperCase(s) ==
    IF s = "" THEN "" ELSE UpperChar(Head(s)) \o toUpperCase(Tail(s))

\* String.prototype.indexOf for a one-character needle: 0-based, -1 when absent
indexOf(s, c) == PosFrom(s, c, 1) - 1

\* String.prototype.slice(from, to) with 0-based, in-range arguments
slice(s, from, to) == SubSeq(s, from + 1, to)

sliceFrom(s, from) == SubSeq(s, from + 1, Len(s))

IsSpace(c) == c \in {" ", "\t", "\n", "\r"}

\* positions of s that hold no whitespace
Inked(s) == {k \in 1..Len(s) : ~IsSpace(CharAt(s, k))}

Least(S) == CHOOSE k \in S : \A j \in S : k <= j
Greatest(S) == CHOOSE k \in S : \A j \in S : k >= j

trimStart(s) ==
    IF Inked(s) = {} THEN "" ELSE SubSeq(s, Least(Inked(s)), Len(s))

trimEnd(s) ==
    IF Inked(s) = {} THEN "" ELSE SubSeq(s, 1, Greatest(Inked(s)))

trim(s) == trimEnd(trimStart(s))

startsWith(s, p) == Len(s) >= Len(p) /\ SubSeq(s, 1, Len(p)) = p

includes(s, sub) ==
    \E k \in 1..(Len(s) - Len(sub) + 1) : SubSeq(s, k, k + Len(sub) - 1) = sub


\* String.prototype.replace with a global pattern of fixed text
RECURSIVE replaceAll(_, _, _)
replaceAll(s, pat, rep) ==
    LET hits == {k \in 1..(Len(s) - Len(pat) + 1) : SubSeq(s, k, k + Len(pat) - 1) = pat}
        k == Least(hits)
    IN  IF hits = {} THEN s
        ELSE SubSeq(s, 1, k - 1) \o rep
                 \o replaceAll(SubSeq(s, k + Len(pat), Len(s)), pat, rep)

\* Array.prototype.join
RECURSIVE join(_, _)
join(lines, sep) ==
    IF lines = <<>> THEN ""
    ELSE IF Len(lines) = 1 THEN lines[1]
    ELSE lines[1] \o sep \o join(Tail(lines), sep)

\* JSON.stringify of a string: quoted, with `"`, `\` and the control
\* characters of the model's alphabet escaped
QuoteChar(c) ==
    IF c = "\"" THEN "\\\""
    ELSE IF c = "\\" THEN "\\\\"
    ELSE IF c = "\n" THEN "\\n"
    ELSE IF c = "\t" THEN "\\t"
    ELSE IF c = "\r" THEN "\\r"
    ELSE c

RECURSIVE QuoteChars(_)
QuoteChars(s) == IF s = "" THEN "" ELSE QuoteChar(Head(s)) \o QuoteChars(Tail(s))

jsStringify(s) == "\"" \o QuoteChars(s) \o "\""

\* the printable ASCII characters from code 32 to 95 and from 97 to 126
AsciiLow == " !\"#$%&'()*+,-./0123456789:;<=>?@ABCDEFGHIJKLMNOPQRSTUVWXYZ[\\]^_"
AsciiHigh == "abcdefghijklmnopqrstuvwxyz{|}~"

charCode(c) ==
    IF c = "\n" THEN 10
    ELSE IF c = "\t" THEN 9
    ELSE IF c = "\r" THEN 13
    ELSE IF PosFrom(AsciiLow, c, 1) /= 0 THEN PosFrom(AsciiLow, c, 1) + 31
    ELSE PosFrom(AsciiHigh, c, 1) + 96

Base64Digits == "ABCDEFGHIJKLMNOPQRSTUVWXYZabcdefghijklmnopqrstuvwxyz0123456789+/"

B64(k) == CharAt(Base64Digits, k + 1)

\* Buffer.from(s).toString("base64") for a string of ASCII characters
RECURSIVE base64(_)
base64(s) ==
    IF s = "" THEN ""
    ELSE LET b1 == charCode(CharAt(s, 1))
             b2 == IF Len(s) >= 2 THEN charCode(CharAt(s, 2)) ELSE 0
             b3 == IF Len(s) >= 3 THEN charCode(CharAt(s, 3)) ELSE 0
             c1 == B64(b1 \div 4)
             c2 == B64((b1 % 4) * 16 + b2 \div 16)
             c3 == B64((b2 % 16) * 4 + b3 \div 64)
             c4 == B64(b3 % 64)
         IN  IF Len(s) = 1 THEN c1 \o c2 \o "=="
             ELSE IF Len(s) = 2 THEN c1 \o c2 \o c3 \o "="
             ELSE c1 \o c2 \o c3 \o c4 \o base64(SubSeq(s, 4, Len(s)))

-----------------------------------------------------------------------------
(* The headers object: a JS object used as a map, kept in insertion order *)

\* 1-based position of the own property k of h, 0 when absent
RECURSIVE KeyPos(_, _, _)
KeyPos(h, k, j) ==
    IF j > Len(h) THEN 0
    ELSE IF h[j][1] = k THEN j
    ELSE KeyPos(h, k, j + 1)

HasKey(h, k) == KeyPos(h, k, 1) /= 0

\* headers[k] = v on a plain object: an existing property keeps its place, a
\* new one is added last; "__proto__" names the prototype accessor of
\* Object.prototype, whose setter ignores a string, so no property is made
headersAssign(h, k, v) ==
    IF k = "__proto__" THEN h
    ELSE IF HasKey(h, k) THEN [h EXCEPT ![KeyPos(h, k, 1)] = <<k, v>>]
    ELSE Append(h, <<k, v>>)

\* headers[k] read as `string | undefined`
headersGet(h, k) == IF HasKey(h, k) THEN Some(h[KeyPos(h, k, 1)][2]) ELSE NULL

\* property order of a JS object: the keys that are array indices first, in
\* ascending numeric order, then the other keys in insertion order
Digits == "0123456789"

IsDigit(c) == PosFrom(Digits, c, 1) /= 0

RECURSIVE AllDigits(_)
AllDigits(s) == s = "" \/ (IsDigit(Head(s)) /\ AllDigits(Tail(s)))

\* canonical numeric strings of at most nine digits (all below 2^32 - 1)
IsIndexKey(k) ==
    /\ k /= ""
    /\ Len(k) <= 9
    /\ AllDigits(k)
    /\ (k = "0" \/ Head(k) /= "0")

RECURSIVE toNat(_)
toNat(s) ==
    IF s = "" THEN 0
    ELSE 10 * toNat(SubSeq(s, 1, Len(s) - 1)) + (PosFrom(Digits, CharAt(s, Len(s)), 1) - 1)

RECURSIVE Filter(_, _)
Filter(h, indexKeys) ==
    IF h = <<>> THEN <<>>
    ELSE IF IsIndexKey(h[1][1]) = indexKeys
    THEN <<h[1]>> \o Filter(Tail(h), indexKeys)
    ELSE Filter(Tail(h), indexKeys)

RECURSIVE SortByIndex(_)
SortByIndex(h) ==
    IF h = <<>> THEN <<>>
    ELSE LET m == CHOOSE j \in 1..Len(h) :
                      \A l \in 1..Len(h) : toNat(h[j][1]) <= toNat(h[l][1])
         IN  <<h[m]>> \o SortByIndex(SubSeq(h, 1, m - 1) \o SubSeq(h, m + 1, Len(h)))

\* Object.entries
ObjectEntries(h) == SortByIndex(Filter(h, TRUE)) \o Filter(h, FALSE)

-----------------------------------------------------------------------------
(* JSON.parse and JSON.stringify, for JSON text over the model's alphabet:   *)
(* numbers are integer literals, string escapes are \" \\ \/ \n \t \r.       *)
(* A decoded value is a record tagged by t.                                  *)

JsonFail == [ok |-> FALSE]
JsonOk(v, rest) == [ok |-> TRUE, v |-> v, rest |-> rest]

Drop(s, k) == SubSeq(s, k + 1, Len(s))

\* CreateDataProperty on the object being decoded: a repeated key keeps its
\* place and takes the later value
memberAssign(ms, k, v) ==
    IF HasKey(ms, k) THEN [ms EXCEPT ![KeyPos(ms, k, 1)] = <<k, v>>]
    ELSE Append(ms, <<k, v>>)

\* the characters of a string literal after its opening quote
RECURSIVE jsonString(_, _)
jsonString(s, acc) ==
    IF s = "" THEN JsonFail
    ELSE LET c == Head(s)
         IN  IF c = "\"" THEN JsonOk(acc, Tail(s))
             ELSE IF c \in {"\n", "\t", "\r"} THEN JsonFail
             ELSE IF c = "\\"
             THEN IF Len(s) < 2 THEN JsonFail
                  ELSE LET e == CharAt(s, 2)
                       IN  IF e \in {"\"", "\\", "/"} THEN jsonString(Drop(s, 2), acc \o e)
                           ELSE IF e = "n" THEN jsonString(Drop(s, 2), acc \o "\n")
                           ELSE IF e = "t" THEN jsonString(Drop(s, 2), acc \o "\t")
                           ELSE IF e = "r" THEN jsonString(Drop(s, 2), acc \o "\r")
                           ELSE JsonFail
             ELSE jsonString(Tail(s), acc \o c)

RECURSIVE DigitRun(_)
DigitRun(s) == IF s /= "" /\ IsDigit(Head(s)) THEN 1 + DigitRun(Tail(s)) ELSE 0

\* an integer literal: -? (0 | [1-9][0-9]*)
jsonNumber(s) ==
    LET neg == startsWith(s, "-")
        t == IF neg THEN Tail(s) ELSE s
        k == DigitRun(t)
        digits == SubSeq(t, 1, k)
    IN  IF k = 0 \/ (k > 1 /\ Head(t) = "0") THEN JsonFail
        ELSE JsonOk([t |-> "num", s |-> (IF neg /\ digits /= "0" THEN "-" ELSE "") \o digits],
                    Drop(t, k))

RECURSIVE jsonValue(_)
RECURSIVE jsonItems(_, _)
RECURSIVE jsonMembers(_, _)
RECURSIVE itemsAfter(_, _)
RECURSIVE membersAfterValue(_, _, _)
RECURSIVE membersAfterKey(_, _)

jsonValue(s0) ==
    LET s == trimStart(s0)
    IN  IF s = "" THEN JsonFail
        ELSE IF startsWith(s, "null") THEN JsonOk([t |-> "null"], Drop(s, 4))
        ELSE IF startsWith(s, "true") THEN JsonOk([t |-> "true"], Drop(s, 4))
        ELSE IF startsWith(s, "false") THEN JsonOk([t |-> "false"], Drop(s, 5))
        ELSE IF Head(s) = "\""
        THEN LET r == jsonString(Tail(s), "")
             IN  IF r.ok THEN JsonOk([t |-> "str", s |-> r.v], r.rest) ELSE JsonFail
        ELSE IF Head(s) = "["
        THEN IF startsWith(trimStart(Tail(s)), "]")
             THEN JsonOk([t |-> "arr", items |-> <<>>], Tail(trimStart(Tail(s))))
             ELSE jsonItems(Tail(s), <<>>)
        ELSE IF Head(s) = "{"
        THEN IF startsWith(trimStart(Tail(s)), "}")
             THEN JsonOk([t |-> "obj", members |-> <<>>], Tail(trimStart(Tail(s))))
             ELSE jsonMembers(Tail(s), <<>>)
        ELSE jsonNumber(s)

\* the elements of an array after "[" or ",": r is the element just decoded
itemsAfter(r, acc) ==
    IF ~r.ok THEN JsonFail
    ELSE LET t == trimStart(r.rest)
         IN  IF startsWith(t, ",") THEN jsonItems(Tail(t), Append(acc, r.v))
             ELSE IF startsWith(t, "]")
             THEN JsonOk([t |-> "arr", items |-> Append(acc, r.v)], Tail(t))
             ELSE JsonFail

jsonItems(s, acc) == itemsAfter(jsonValue(s), acc)

\* the members of an object after "{" or ",": k is the key just decoded, r the
\* value after its colon
membersAfterValue(k, r, acc) ==
    IF ~r.ok THEN JsonFail
    ELSE LET u == trimStart(r.rest)
             ms == memberAssign(acc, k.v, r.v)
         IN  IF startsWith(u, ",") THEN jsonMembers(Tail(u), ms)
             ELSE IF startsWith(u, "}")
             THEN JsonOk([t |-> "obj", members |-> ms], Tail(u))
             ELSE JsonFail

membersAfterKey(k, acc) ==
    IF ~k.ok \/ ~startsWith(trimStart(k.rest), ":") THEN JsonFail
    ELSE membersAfterValue(k, jsonValue(Tail(trimStart(k.rest))), acc)

jsonMembers(s, acc) ==
    LET t == trimStart(s)
    IN  IF ~startsWith(t, "\"") THEN JsonFail
        ELSE membersAfterKey(jsonString(Tail(t), ""), acc)

\* the text is one value and nothing else
wholeText(r) == IF r.ok /\ trimStart(r.rest) = "" THEN r ELSE JsonFail

\* JSON.parse: JsonFail stands for the SyntaxError it throws
jsonParse(s) == wholeText(jsonValue(s))

RECURSIVE stringifyValue(_, _, _)
RECURSIVE stringifyItems(_, _, _)
RECURSIVE stringifyMembers(_, _, _)

\* JSON.stringify(v, null, gap) at the indentation cur
stringifyValue(v, cur, gap) ==
    IF v.t \in {"null", "true", "false"} THEN v.t
    ELSE IF v.t = "num" THEN v.s
    ELSE IF v.t = "str" THEN jsStringify(v.s)
    ELSE IF v.t = "arr"
    THEN IF v.items = <<>> THEN "[]"
         ELSE "[\n" \o stringifyItems(v.items, cur \o gap, gap) \o "\n" \o cur \o "]"
    ELSE IF v.members = <<>> THEN "{}"
         ELSE "{\n" \o stringifyMembers(ObjectEntries(v.members), cur \o gap, gap)
                  \o "\n" \o cur \o "}"

stringifyItems(items, cur, gap) ==
    cur \o stringifyValue(items[1], cur, gap)
        \o (IF Len(items) = 1 THEN "" ELSE ",\n" \o stringifyItems(Tail(items), cur, gap))

stringifyMembers(ms, cur, gap) ==
    cur \o jsStringify(ms[1][1]) \o ": " \o stringifyValue(ms[1][2], cur, gap)
        \o (IF Len(ms) = 1 THEN "" ELSE ",\n" \o stringifyMembers(Tail(ms), cur, gap))

\* JSON.stringify(v, null, 2) and JSON.stringify(v, null, 4)
jsonPretty2(v) == stringifyValue(v, "", "  ")
jsonPretty4(v) == stringifyValue(v, "", "    ")

-----------------------------------------------------------------------------
(* new URL(s) without a base, for URLs over the model's alphabet: no         *)
(* percent-encoding, no dot segments, no IPv6 or IDNA hosts, no file: rules  *)

UrlFail == [ok |-> FALSE]

SpecialSchemes == {"http", "https", "ws", "wss", "ftp"}

DefaultPort(scheme) ==
    IF scheme \in {"http", "ws"} THEN 80
    ELSE IF scheme \in {"https", "wss"} THEN 443
    ELSE IF scheme = "ftp" THEN 21
    ELSE -1

IsAlpha(c) == PosFrom(UpperLetters, c, 1) /= 0 \/ PosFrom(LowerLetters, c, 1) /= 0

RECURSIVE IsSchemeTail(_)
IsSchemeTail(s) ==
    s = "" \/ ((IsAlpha(Head(s)) \/ IsDigit(Head(s)) \/ Head(s) \in {"+", "-", "."})
                /\ IsSchemeTail(Tail(s)))

\* length of the longest prefix of s with no character of stops
RECURSIVE SpanUntil(_, _)
SpanUntil(s, stops) ==
    IF s = "" \/ Head(s) \in stops THEN 0 ELSE 1 + SpanUntil(Tail(s), stops)

\* 1-based position of the last occurrence of c in s, 0 when absent
RECURSIVE LastPos(_, _, _)
LastPos(s, c, k) ==
    IF k = 0 THEN 0 ELSE IF CharAt(s, k) = c THEN k ELSE LastPos(s, c, k - 1)

RECURSIVE natToStr(_)
natToStr(k) ==
    IF k < 10 THEN CharAt(Digits, k + 1)
    ELSE natToStr(k \div 10) \o CharAt(Digits, (k % 10) + 1)

ForbiddenHostChars == {" ", "<", ">", "[", "]", "^", "|", "%"}

\* path, query and fragment after the authority (or after the scheme)
UrlTail(scheme, host, port, t, special) ==
    LET pl == SpanUntil(t, {"?", "#"})
        path == SubSeq(t, 1, pl)
        afterPath == Drop(t, pl)
        ql == IF startsWith(afterPath, "?") THEN SpanUntil(Tail(afterPath), {"#"}) ELSE 0
        query == IF startsWith(afterPath, "?") THEN SubSeq(afterPath, 2, ql + 1) ELSE ""
    IN  [ok |-> TRUE,
         protocol |-> scheme \o ":",
         hostname |-> host,
         port |-> port,
         pathname |-> IF special
                      THEN (IF path = "" THEN "/" ELSE replaceAll(path, "\\", "/"))
                      ELSE path,
         search |-> IF query = "" THEN "" ELSE "?" \o query]

\* the authority `[userinfo@]host[:port]` and what follows it
UrlAuthority(scheme, t, special) ==
    LET al == SpanUntil(t, IF special THEN {"/", "\\", "?", "#"} ELSE {"/", "?", "#"})
        authority == SubSeq(t, 1, al)
        at == LastPos(authority, "@", Len(authority))
        hostport == Drop(authority, at)
        colon == PosFrom(hostport, ":", 1)
        host == IF colon = 0 THEN hostport ELSE SubSeq(hostport, 1, colon - 1)
        portText == IF colon = 0 THEN "" ELSE Drop(hostport, colon)
        portOk == Len(portText) <= 9 /\ AllDigits(portText)
                    /\ (portText = "" \/ toNat(portText) <= 65535)
        port == IF portText = "" \/ toNat(portText) = DefaultPort(scheme) THEN ""
                ELSE natToStr(toNat(portText))
    IN  IF special /\ host = "" THEN UrlFail
        ELSE IF \E k \in 1..Len(host) : CharAt(host, k) \in ForbiddenHostChars THEN UrlFail
        ELSE IF ~portOk THEN UrlFail
        ELSE UrlTail(scheme, IF special THEN toLowerCase(host) ELSE host, port,
                     Drop(t, al), special)

RECURSIVE SkipSlashes(_)
SkipSlashes(s) ==
    IF s /= "" /\ Head(s) \in {"/", "\\"} THEN SkipSlashes(Tail(s)) ELSE s

parseUrl(s0) ==
    LET s == trim(s0)
        colon == PosFrom(s, ":", 1)
        scheme == toLowerCase(SubSeq(s, 1, colon - 1))
        rest == Drop(s, colon)
    IN  IF colon < 2 \/ ~IsAlpha(Head(s)) \/ ~IsSchemeTail(SubSeq(s, 1, colon - 1))
        THEN UrlFail
        ELSE IF scheme \in SpecialSchemes THEN UrlAuthority(scheme, SkipSlashes(rest), TRUE)
        ELSE IF startsWith(rest, "//") THEN UrlAuthority(scheme, Drop(rest, 2), FALSE)
        ELSE UrlTail(scheme, "", "", rest, FALSE)

-----------------------------------------------------------------------------
(* parseCurl: the flag table and the input domain *)

RequestFlags == {"-X", "--request"}
HeaderFlags == {"-H", "--header"}
DataFlags == {"-d", "--data", "--data-raw", "--data-binary", "--data-ascii"}
UserFlags == {"-u", "--user"}
JsonFlags == {"--json"}
FormFlags == {"--form", "-F"}
IgnoredFlags ==
    {"--compressed", "-L", "--location", "-k", "--insecure", "-s", "--silent",
     "-v", "--verbose", "-i", "--include"}
CookieFlags == {"-b", "--cookie"}
UserAgentFlags == {"-A", "--user-agent"}
RefererFlags == {"-e", "--referer"}

ArgFlags ==
    RequestFlags \cup HeaderFlags \cup DataFlags \cup UserFlags \cup JsonFlags
        \cup FormFlags \cup CookieFlags \cup UserAgentFlags \cup RefererFlags

\* tokens the model offers at tokens[0]
FirstTokens == {"curl", "CURL", "wget"}

\* tokens the model offers at a cursor position
PlainTokens == {"https://x.io/a", "b.io", ""}
OtherFlags == {"--foo", "-o", "-x", "-"}
TokenPool == ArgFlags \cup IgnoredFlags \cup PlainTokens \cup OtherFlags

\* tokens the model offers right after an argument-taking flag
ArgsFor(tok) ==
    IF tok \in RequestFlags THEN {"put", ""}
    ELSE IF tok \in HeaderFlags THEN
        {"A: 1", " A :2:3 ", "nocolon",
         "content-type: application/x-www-form-urlencoded",
         "CONTENT-TYPE: application/json", "__proto__: 1",
         "Authorization: Bearer t"}
    ELSE IF tok \in DataFlags THEN
        {"", "a=1", " {\"a\":1}", "[x", "https://x.io/a"}
    ELSE IF tok \in UserFlags THEN {"admin:secret", "admin", "a:b:c"}
    ELSE IF tok \in JsonFlags THEN {"{\"a\":true}", "x"}
    ELSE IF tok \in FormFlags THEN {"f=1", ""}
    ELSE IF tok \in CookieFlags THEN {"c=1"}
    ELSE IF tok \in UserAgentFlags THEN {"ua/1"}
    ELSE {"b.io"}

-----------------------------------------------------------------------------
(* Code generators: each returns the text it builds, lines joined by "\n"  *)

Languages == {"js-fetch", "js-axios", "python-requests", "go", "nodejs"}

RECURSIVE indent(_)
indent(k) == IF k = 0 THEN "" ELSE "  " \o indent(k - 1)

\* `${user}:${password}` encoded, as the value of an Authorization header
basicAuth(au) == "Basic " \o base64(au.user \o ":" \o au.password)

\* one `"name": "value",` line per entry, after the given prefix
RECURSIVE entryLines(_, _)
entryLines(entries, prefix) ==
    IF entries = <<>> THEN <<>>
    ELSE <<prefix \o jsStringify(entries[1][1]) \o ": " \o jsStringify(entries[1][2]) \o ",">>
             \o entryLines(Tail(entries), prefix)

\* `.split("\n").join("\n" + indent(1))`
reindent(text) == replaceAll(text, "\n", "\n" \o indent(1))

\* a variant that omits the method option for every method
fetchMethodOptionNever(p) == <<>>

\* lines 409-411: the method option, left out for GET
fetchMethodOption(p) ==
    IF p.method /= "GET"
    THEN <<indent(1) \o "method: " \o jsStringify(p.method) \o ",">>
    ELSE <<>>

generateJsFetch(p) ==
    LET methodOpt == fetchMethodOption(p)
        headerEntries ==
            ObjectEntries(p.headers)
                \o (IF p.auth /= NULL THEN << <<"Authorization", basicAuth(p.auth)>> >> ELSE <<>>)
        headerOpt ==
            IF headerEntries /= <<>>
            THEN <<indent(1) \o "headers: {">> \o entryLines(headerEntries, indent(2))
                     \o <<indent(1) \o "},">>
            ELSE <<>>
        bodyOpt ==
            IF p.body /= NULL
            THEN IF p.isJson /\ jsonParse(p.body.val).ok
                 THEN <<indent(1) \o "body: JSON.stringify("
                          \o reindent(jsonPretty2(jsonParse(p.body.val).v)) \o "),">>
                 ELSE <<indent(1) \o "body: " \o jsStringify(p.body.val) \o ",">>
            ELSE <<>>
        lines ==
            <<"const response = await fetch(" \o jsStringify(p.url) \o ", {">>
                \o methodOpt \o headerOpt \o bodyOpt
                \o <<"});", "const data = await response.json();", "console.log(data);">>
    IN  join(lines, "\n")

generateJsAxios(p) ==
    LET headerEntries == ObjectEntries(p.headers)
        authPart ==
            IF p.auth /= NULL
            THEN <<indent(1) \o "auth: {",
                   indent(2) \o "username: " \o jsStringify(p.auth.user) \o ",",
                   indent(2) \o "password: " \o jsStringify(p.auth.password) \o ",",
                   indent(1) \o "},">>
            ELSE <<>>
        headerPart ==
            IF headerEntries /= <<>>
            THEN <<indent(1) \o "headers: {">> \o entryLines(headerEntries, indent(2))
                     \o <<indent(1) \o "},">>
            ELSE <<>>
        dataPart ==
            IF p.body /= NULL
            THEN IF p.isJson /\ jsonParse(p.body.val).ok
                 THEN <<indent(1) \o "data: "
                          \o reindent(jsonPretty2(jsonParse(p.body.val).v)) \o ",">>
                 ELSE <<indent(1) \o "data: " \o jsStringify(p.body.val) \o ",">>
            ELSE <<>>
        configParts ==
            <<indent(1) \o "method: " \o jsStringify(toLowerCase(p.method)) \o ",",
              indent(1) \o "url: " \o jsStringify(p.url) \o ",">>
                \o authPart \o headerPart \o dataPart
        lines ==
            (IF p.auth /= NULL THEN <<"// Axios handles basic auth natively:">> ELSE <<>>)
                \o <<"import axios from 'axios';", "", "const response = await axios({">>
                \o configParts
                \o <<"});", "console.log(response.data);">>
    IN  join(lines, "\n")

\* the three replacements applied to the indented JSON text
pyLiterals(text) ==
    replaceAll(replaceAll(replaceAll(text, ": null", ": None"), ": true", ": True"),
               ": false", ": False")

generatePythonRequests(p) ==
    LET headerEntries == ObjectEntries(p.headers)
        headerLines ==
            IF headerEntries /= <<>>
            THEN <<"headers = {">> \o entryLines(headerEntries, "    ") \o <<"}", "">>
            ELSE <<>>
        bodyLines ==
            IF p.body /= NULL
            THEN IF p.isJson
                 THEN <<IF jsonParse(p.body.val).ok
                        THEN "payload = " \o pyLiterals(jsonPretty4(jsonParse(p.body.val).v))
                        ELSE "payload = " \o jsStringify(p.body.val),
                        "">>
                 ELSE <<"data = " \o jsStringify(p.body.val), "">>
            ELSE <<>>
        args ==
            <<"url">>
                \o (IF headerEntries /= <<>> THEN <<"headers=headers">> ELSE <<>>)
                \o (IF p.auth /= NULL
                    THEN <<"auth=(" \o jsStringify(p.auth.user) \o ", "
                             \o jsStringify(p.auth.password) \o ")">>
                    ELSE <<>>)
                \o (IF p.body /= NULL
                    THEN (IF p.isJson THEN <<"json=payload">> ELSE <<"data=data">>)
                    ELSE <<>>)
        lines ==
            <<"import requests", "">> \o headerLines \o bodyLines
                \o <<"url = " \o jsStringify(p.url),
                     "",
                     "response = requests." \o toLowerCase(p.method) \o "("
                         \o join(args, ", ") \o ")",
                     "print(response.json())">>
    IN  join(lines, "\n")

\* the text the go and nodejs generators embed: the re-indented JSON when the
\* body is classified JSON and decodes, the body itself otherwise
bodyStr(p) ==
    IF p.isJson /\ jsonParse(p.body.val).ok
    THEN jsonPretty2(jsonParse(p.body.val).v)
    ELSE p.body.val

RECURSIVE goHeaderLines(_)
goHeaderLines(entries) ==
    IF entries = <<>> THEN <<>>
    ELSE <<"\treq.Header.Set(" \o jsStringify(entries[1][1]) \o ", "
             \o jsStringify(entries[1][2]) \o ")">> \o goHeaderLines(Tail(entries))

generateGo(p) ==
    LET lines ==
            <<"package main", "", "import (", "\t\"fmt\"">>
                \o (IF Truthy(p.body) THEN <<"\t\"strings\"">> ELSE <<>>)
                \o <<"\t\"net/http\"", "\t\"io\"", ")", "", "func main() {",
                     "\turl := " \o jsStringify(p.url), "">>
                \o (IF Truthy(p.body)
                    THEN <<"\tbody := strings.NewReader(" \o jsStringify(bodyStr(p)) \o ")",
                           "\treq, err := http.NewRequest(" \o jsStringify(p.method)
                               \o ", url, body)">>
                    ELSE <<"\treq, err := http.NewRequest(" \o jsStringify(p.method)
                               \o ", url, nil)">>)
                \o <<"\tif err != nil {", "\t\tpanic(err)", "\t}", "">>
                \o goHeaderLines(ObjectEntries(p.headers))
                \o (IF p.auth /= NULL
                    THEN <<"\treq.SetBasicAuth(" \o jsStringify(p.auth.user) \o ", "
                             \o jsStringify(p.auth.password) \o ")">>
                    ELSE <<>>)
                \o <<"", "\tclient := &http.Client{}", "\tresp, err := client.Do(req)",
                     "\tif err != nil {", "\t\tpanic(err)", "\t}",
                     "\tdefer resp.Body.Close()", "",
                     "\tbody2, _ := io.ReadAll(resp.Body)",
                     "\tfmt.Println(string(body2))", "}">>
    IN  join(lines, "\n")

\* `urlObj.protocol.replace(":", "")`: the first colon only
dropFirstColon(s) ==
    LET k == PosFrom(s, ":", 1)
    IN  IF k = 0 THEN s ELSE SubSeq(s, 1, k - 1) \o Drop(s, k)

\* the headers block of the nodejs generator: the entry named Content-Length
\* is rendered as an expression, every other one as a string literal
RECURSIVE nodeHeaderLines(_)
nodeHeaderLines(entries) ==
    IF entries = <<>> THEN <<>>
    ELSE <<IF entries[1][1] = "Content-Length"
           THEN "    " \o jsStringify(entries[1][1]) \o ": " \o entries[1][2] \o ","
           ELSE "    " \o jsStringify(entries[1][1]) \o ": " \o jsStringify(entries[1][2])
                    \o ",">>
             \o nodeHeaderLines(Tail(entries))

\* the text generateNodeJs renders once `new URL(p.url)` has returned urlObj
\* (or thrown: urlObj.ok is FALSE)
requestText(p, urlObj) ==
    LET protocol == dropFirstColon(urlObj.protocol)
        port == IF urlObj.port /= "" THEN urlObj.port
                ELSE IF protocol = "https" THEN "443" ELSE "80"
        path == urlObj.pathname \o urlObj.search
        headerEntries ==
            ObjectEntries(p.headers)
                \o (IF Truthy(p.body)
                    THEN << <<"Content-Length", "Buffer.byteLength(postData)">> >>
                    ELSE <<>>)
                \o (IF p.auth /= NULL THEN << <<"Authorization", basicAuth(p.auth)>> >> ELSE <<>>)
        lines ==
            <<"const " \o protocol \o " = require('" \o protocol \o "');", "">>
                \o (IF Truthy(p.body)
                    THEN <<"const postData = " \o jsStringify(bodyStr(p)) \o ";", "">>
                    ELSE <<>>)
                \o <<"const options = {",
                     "  hostname: " \o jsStringify(urlObj.hostname) \o ",">>
                \o (IF (protocol = "https" /\ port /= "443") \/ (protocol = "http" /\ port /= "80")
                    THEN <<"  port: " \o port \o ",">>
                    ELSE <<>>)
                \o <<"  path: " \o jsStringify(IF path = "" THEN "/" ELSE path) \o ",",
                     "  method: " \o jsStringify(p.method) \o ",">>
                \o (IF headerEntries /= <<>>
                    THEN <<"  headers: {">> \o nodeHeaderLines(headerEntries) \o <<"  },">>
                    ELSE <<>>)
                \o <<"};", "",
                     "const req = " \o protocol \o ".request(options, (res) => {",
                     "  let data = '';",
                     "  res.on('data', (chunk) => { data += chunk; });",
                     "  res.on('end', () => { console.log(JSON.parse(data)); });",
                     "});", "",
                     "req.on('error', (e) => { console.error(e); });">>
                \o (IF Truthy(p.body) THEN <<"req.write(postData);">> ELSE <<>>)
                \o <<"req.end();">>
        fallback ==
            <<"// Could not fully parse the URL: " \o p.url,
              "// Please adjust hostname, path and port below.",
              "const https = require('https');",
              "// ... (manual setup required)">>
    IN  join(IF urlObj.ok THEN lines ELSE fallback, "\n")

generateNodeJs(p) == requestText(p, parseUrl(p.url))

generateCode(p, lang) ==
    IF lang = "js-fetch" THEN generateJsFetch(p)
    ELSE IF lang = "js-axios" THEN generateJsAxios(p)
    ELSE IF lang = "python-requests" THEN generatePythonRequests(p)
    ELSE IF lang = "go" THEN generateGo(p)
    ELSE IF lang = "nodejs" THEN generateNodeJs(p)
    ELSE ""

-----------------------------------------------------------------------------
(* State *)

VARIABLES
    pc,         \* "start", "scan", "done", "generated": where the conversion is
    first,      \* tokens[0], NULL when the token array is empty
    i,          \* the cursor of the for loop
    url,        \* locals of parseCurl
    method,
    headers,
    body,
    auth,
    parsed,     \* the value parseCurl returned (NULL or a ParsedCurl)
    lang,       \* the target generateCode was called with, NULL before the call
    output,     \* the text generateCode returned, NULL before the call
    firstPlain, \* history: the first token after tokens[0] not starting with "-"
    firstPositional, \* history: the first non-empty token the positional branch took
    trailing,   \* the flag that was the last token, so that its `tokens[++i]` was
                \* undefined and the cursor is past the end; NULL otherwise
    lastH,      \* history: <<name, value>> of the names last written by a -H flag
    tokenArray, \* the token array when it is given in full; NULL when it is
                \* revealed as the cursor reads it
    visited     \* history, kept for a given array: the cursor values the loop
                \* body ran with

VARIABLES
    tpc,        \* tokenizeCurl: "idle", "start", "scan", "done"
    tinput,     \* the argument `input`
    ts,         \* the local `s`: the input trimmed, line continuations collapsed
    ti,         \* the cursor `i` of the scan loop (0-based, as in the source)
    ttokens,    \* the array `tokens`
    tseq        \* the token sequence tinput was written from, NULL when it was not

VARIABLES
    curlInput,   \* state of the CurlToCodeConverter component
    language,
    uiOutput,    \* the state `output`
    uiError,     \* the state `error`
    copySuccess,
    writes,      \* clipboard writes of handleCopy that have not settled yet
    timers,      \* 2-second timers of handleCopy that have not fired yet
    cleared      \* history: handleClear has run and no copy was started since

VARIABLES
    dpc,         \* the DNS route's GET: "idle", "start", "primary", "fallback", "done"
    dparams,     \* the search parameters domain, type and provider (NULL when absent)
    dqueried,    \* the providers GET has queried, in order
    dfailed,     \* the providers whose query threw, in order
    dresponse    \* <<>> until GET returns, then <<the response>>

VARIABLES
    lookupDomain, \* state of the DnsLookupSimulator component: `domain`
    recordType,
    lookupProvider,
    loading,
    result,       \* NULL or a DNSLookupResponse
    copiedIndex,  \* NULL or a record index
    copiedAll,
    lpc,          \* performLookup: "idle", "fetch" (awaiting fetch), "json"
                  \* (awaiting response.json())
    lrequest,     \* domain, recordType and provider of the call that is awaiting
    lwrites,      \* clipboard writes of copyToClipboard that have not settled,
                  \* counted per target ("all" or "index")
    ltimers       \* 2-second timers of copyToClipboard that have not fired

curlVars == <<pc, first, i, url, method, headers, body, auth, parsed, lang, output, firstPlain, firstPositional, trailing, lastH, tokenArray, visited>>

tokVars == <<tpc, tinput, ts, ti, ttokens, tseq>>

uiVars == <<curlInput, language, uiOutput, uiError, copySuccess, writes, timers, cleared>>

dnsVars == <<dpc, dparams, dqueried, dfailed, dresponse>>

\* the variables parseCurl and generateCode do not touch
lookupVars == <<lookupDomain, recordType, lookupProvider, loading, result, copiedIndex, copiedAll, lpc, lrequest, lwrites, ltimers>>

notCurl == <<tokVars, uiVars, dnsVars, lookupVars>>

\* the variables tokenizeCurl does not touch
notTok == <<curlVars, uiVars, dnsVars, lookupVars>>

\* the variables the component does not touch
notUi == <<curlVars, tokVars, dnsVars, lookupVars>>

\* the variables the DNS route does not touch
notDns == <<curlVars, tokVars, uiVars, lookupVars>>

notLookup == <<curlVars, tokVars, uiVars, dnsVars>>

vars == <<curlVars, tokVars, uiVars, dnsVars, lookupVars>>

\* the tokenizer is not running
TokIdle ==
    /\ tpc = "idle"
    /\ tinput = ""
    /\ ts = ""
    /\ ti = 0
    /\ ttokens = <<>>
    /\ tseq = NULL

\* parseCurl and generateCode are not running
CurlIdle ==
    /\ pc = "idle"
    /\ first = NULL
    /\ i = 1
    /\ url = ""
    /\ method = ""
    /\ headers = <<>>
    /\ body = NULL
    /\ auth = NULL
    /\ parsed = NULL
    /\ lang = NULL
    /\ output = NULL
    /\ firstPlain = NULL
    /\ firstPositional = NULL
    /\ trailing = NULL
    /\ lastH = {}
    /\ tokenArray = NULL
    /\ visited = {}

\* the component is not mounted
UiIdle ==
    /\ curlInput = ""
    /\ language = "idle"
    /\ uiOutput = ""
    /\ uiError = ""
    /\ copySuccess = FALSE
    /\ writes = 0
    /\ timers = 0
    /\ cleared = FALSE

\* no request has reached the DNS route
DnsIdle ==
    /\ dpc = "idle"
    /\ dparams = [domain |-> NULL, type |-> NULL, provider |-> NULL]
    /\ dqueried = <<>>
    /\ dfailed = <<>>
    /\ dresponse = <<>>

\* the lookup component as it is mounted, with nothing typed or clicked
LookupIdle ==
    /\ lookupDomain = ""
    /\ recordType = "A"
    /\ lookupProvider = "cloudflare"
    /\ loading = FALSE
    /\ result = NULL
    /\ copiedIndex = NULL
    /\ copiedAll = FALSE
    /\ lpc = "idle"
    /\ lrequest = NULL
    /\ lwrites = [all |-> 0, index |-> 0]
    /\ ltimers = [all |-> 0, index |-> 0]

NotCurlIdle == TokIdle /\ UiIdle /\ DnsIdle /\ LookupIdle
NotTokIdle == CurlIdle /\ UiIdle /\ DnsIdle /\ LookupIdle
NotUiIdle == CurlIdle /\ TokIdle /\ DnsIdle /\ LookupIdle
NotDnsIdle == CurlIdle /\ TokIdle /\ UiIdle /\ LookupIdle
NotLookupIdle == CurlIdle /\ TokIdle /\ UiIdle /\ DnsIdle

\* The token array is revealed as the cursor reads it: tokens[0] is drawn in
\* Init, every iteration draws the token at the cursor, and a flag that takes
\* an argument draws tokens[i + 1], which is undefined (NULL) when the flag
\* is the last token.  tokens.length stays within MaxTokens.
NextTokens(tok) ==
    IF tokenArray = NULL
    THEN {NULL} \cup (IF i + 1 < MaxTokens THEN {Some(a) : a \in ArgsFor(tok)} ELSE {})
    ELSE IF i + 1 < Len(tokenArray.val) THEN {Some(tokenArray.val[i + 2])} ELSE {NULL}

\* `const tok = tokens[i]`
TokensAtCursor == IF tokenArray = NULL THEN TokenPool ELSE {tokenArray.val[i + 1]}

\* a variant without the `?? ""`: the missing token read as the text undefined
OrEmptyUndefined(a) == IF a = NULL THEN "undefined" ELSE a.val
\* `x ?? ""`
OrEmpty(a) == IF a = NULL THEN "" ELSE a.val

\* history of the tokens read by one iteration: tok at the cursor and, for a
\* flag that takes an argument, the token a after it (NULL when there is none)
Plain(t) == ~startsWith(t, "-")

HeaderName(hdr) == trim(SubSeq(hdr, 1, PosFrom(hdr, ":", 1) - 1))
HeaderValue(hdr) == trim(SubSeq(hdr, PosFrom(hdr, ":", 1) + 1, Len(hdr)))

Forget(h, names) == {e \in h : e[1] \notin names}

Observe(tok, takesArg, a) ==
    /\ firstPlain' =
        IF firstPlain /= NULL THEN firstPlain
        ELSE IF Plain(tok) THEN Some(tok)
        ELSE IF a /= NULL /\ Plain(a.val) THEN a
        ELSE NULL
    /\ firstPositional' =
        IF firstPositional = NULL /\ ~takesArg /\ Plain(tok) /\ tok /= ""
        THEN Some(tok)
        ELSE firstPositional
    /\ trailing' = IF takesArg /\ a = NULL THEN Some(tok) ELSE NULL
    /\ lastH' =
        IF tok \in HeaderFlags
        THEN IF a /= NULL /\ PosFrom(a.val, ":", 1) /= 0
             THEN Forget(lastH, {HeaderName(a.val)})
                      \cup {<<HeaderName(a.val), HeaderValue(a.val)>>}
             ELSE lastH
        ELSE IF tok \in JsonFlags THEN Forget(lastH, {"Content-Type", "Accept"})
        ELSE IF tok \in CookieFlags THEN Forget(lastH, {"Cookie"})
        ELSE IF tok \in UserAgentFlags THEN Forget(lastH, {"User-Agent"})
        ELSE IF tok \in RefererFlags THEN Forget(lastH, {"Referer"})
        ELSE lastH
    /\ tokenArray' = tokenArray
    /\ visited' = IF tokenArray = NULL THEN visited ELSE visited \cup {i}

Init ==
    /\ pc = "start"
    /\ first \in {NULL} \cup {Some(t) : t \in FirstTokens}
    /\ i = 1
    /\ url = ""
    /\ method = ""
    /\ headers = <<>>
    /\ body = NULL
    /\ auth = NULL
    /\ parsed = NULL
    /\ lang = NULL
    /\ output = NULL
    /\ firstPlain = NULL
    /\ firstPositional = NULL
    /\ trailing = NULL
    /\ lastH = {}
    /\ tokenArray = NULL
    /\ visited = {}
    /\ NotCurlIdle

-----------------------------------------------------------------------------
(* parseCurl: the branches of the scan loop, as functions of the locals *)

\* a variant that tests `!tokens.length` only
notACommandEmptyOnly(t0) == t0 = NULL
\* `!tokens.length`, or tokens[0] lower-cased is not "curl"
notACommand(t0) == t0 = NULL \/ toLowerCase(t0.val) /= "curl"

\* `tokens[++i]?.toUpperCase() ?? ""`
requestMethod(a) == IF a = NULL THEN "" ELSE toUpperCase(a.val)

\* -H: split at the first colon, trim both sides, store; no colon: no effect
headerBranch(h, a) ==
    LET hdr == OrEmpty(a)
        colon == indexOf(hdr, ":")
    IN  IF colon /= -1
        THEN headersAssign(h, trim(slice(hdr, 0, colon)),
                           trim(sliceFrom(hdr, colon + 1)))
        ELSE h

\* -u: split at the first colon into user and password
userBranch(a) ==
    LET creds == OrEmpty(a)
        idx == indexOf(creds, ":")
    IN  IF idx /= -1
        THEN [user |-> slice(creds, 0, idx), password |-> sliceFrom(creds, idx + 1)]
        ELSE [user |-> creds, password |-> ""]

\* a variant that leaves a Content-Type or Accept an earlier flag gave
jsonHeadersKeep(h) ==
    LET c == IF HasKey(h, "Content-Type") THEN h
             ELSE headersAssign(h, "Content-Type", "application/json")
    IN  IF HasKey(c, "Accept") THEN c ELSE headersAssign(c, "Accept", "application/json")
\* --json: the two forced headers
jsonHeaders(h) ==
    headersAssign(headersAssign(h, "Content-Type", "application/json"),
                  "Accept", "application/json")

\* --form: `if (!body) body = tokens[++i] ?? ""; else i++;`
formBranch(b, a) == IF ~Truthy(b) THEN Some(OrEmpty(a)) ELSE b

\* a variant without the `if (!url)`: the last positional token is kept
positionalBranchLast(u, tok) == tok
\* positional: `if (!url) url = tok;`
positionalBranch(u, tok) == IF u = "" THEN tok ELSE u

\* `if (!method) method = body ? "POST" : "GET";`
detectMethod(m, b) == IF m = "" THEN (IF Truthy(b) THEN "POST" ELSE "GET") ELSE m

\* `headers["Content-Type"] || headers["content-type"] || ""`
contentTypeOf(h) ==
    LET a == headersGet(h, "Content-Type")
        b == headersGet(h, "content-type")
    IN  IF Truthy(a) THEN a.val
        ELSE IF Truthy(b) THEN b.val
        ELSE ""

isJsonOf(h, b) ==
    \/ includes(contentTypeOf(h), "application/json")
    \/ (b /= NULL /\ startsWith(trimStart(b.val), "{"))
    \/ (b /= NULL /\ startsWith(trimStart(b.val), "["))

isFormDataOf(h) == includes(contentTypeOf(h), "application/x-www-form-urlencoded")

\* a variant without the `if (!url) return null`
returnValueAlways(u, m, h, b, au) ==
    [url |-> u, method |-> detectMethod(m, b), headers |-> h, body |-> b,
     auth |-> au, isFormData |-> isFormDataOf(h), isJson |-> isJsonOf(h, b)]
\* the value parseCurl returns once the scan is over
returnValue(u, m, h, b, au) ==
    IF u = "" THEN NULL
    ELSE [url |-> u, method |-> detectMethod(m, b), headers |-> h, body |-> b,
          auth |-> au, isFormData |-> isFormDataOf(h), isJson |-> isJsonOf(h, b)]

-----------------------------------------------------------------------------
(* parseCurl: actions *)

\* lines 298-302: tokenize, then reject an empty array or a first token that
\* is not `curl`
ParseBegin ==
    /\ pc = "start"
    /\ IF notACommand(first)
       THEN pc' = "done"
       ELSE pc' = "scan"
    /\ UNCHANGED <<first, i, url, method, headers, body, auth, parsed, lang, output, firstPlain, firstPositional, trailing, lastH, tokenArray, visited>>
    /\ UNCHANGED notCurl

\* the loop condition `i < tokens.length`, with another token to read
Scanning ==
    /\ pc = "scan"
    /\ trailing = NULL
    /\ i < (IF tokenArray = NULL THEN MaxTokens ELSE Len(tokenArray.val))

FlagRequest ==
    /\ Scanning
    /\ \E tok \in TokensAtCursor : \E a \in NextTokens(tok) :
        /\ tok \in RequestFlags
        /\ method' = requestMethod(a)
        /\ i' = i + 2
        /\ Observe(tok, TRUE, a)
    /\ UNCHANGED <<pc, first, url, headers, body, auth, parsed, lang, output>>
    /\ UNCHANGED notCurl

FlagHeader ==
    /\ Scanning
    /\ \E tok \in TokensAtCursor : \E a \in NextTokens(tok) :
        /\ tok \in HeaderFlags
        /\ headers' = headerBranch(headers, a)
        /\ i' = i + 2
        /\ Observe(tok, TRUE, a)
    /\ UNCHANGED <<pc, first, url, method, body, auth, parsed, lang, output>>
    /\ UNCHANGED notCurl

\* a variant that reads the token after the flag without moving past it
FlagDataPeek ==
    /\ Scanning
    /\ \E tok \in TokensAtCursor : \E a \in NextTokens(tok) :
        /\ tok \in DataFlags
        /\ body' = Some(OrEmpty(a))
        /\ i' = i + 1
        /\ Observe(tok, FALSE, NULL)
    /\ UNCHANGED <<pc, first, url, method, headers, auth, parsed, lang, output>>
    /\ UNCHANGED notCurl

FlagData ==
    /\ Scanning
    /\ \E tok \in TokensAtCursor : \E a \in NextTokens(tok) :
        /\ tok \in DataFlags
        /\ body' = Some(OrEmpty(a))
        /\ i' = i + 2
        /\ Observe(tok, TRUE, a)
    /\ UNCHANGED <<pc, first, url, method, headers, auth, parsed, lang, output>>
    /\ UNCHANGED notCurl

FlagUser ==
    /\ Scanning
    /\ \E tok \in TokensAtCursor : \E a \in NextTokens(tok) :
        /\ tok \in UserFlags
        /\ auth' = userBranch(a)
        /\ i' = i + 2
        /\ Observe(tok, TRUE, a)
    /\ UNCHANGED <<pc, first, url, method, headers, body, parsed, lang, output>>
    /\ UNCHANGED notCurl

FlagJson ==
    /\ Scanning
    /\ \E tok \in TokensAtCursor : \E a \in NextTokens(tok) :
        /\ tok \in JsonFlags
        /\ body' = Some(OrEmpty(a))
        /\ headers' = jsonHeaders(headers)
        /\ i' = i + 2
        /\ Observe(tok, TRUE, a)
    /\ UNCHANGED <<pc, first, url, method, auth, parsed, lang, output>>
    /\ UNCHANGED notCurl

FlagForm ==
    /\ Scanning
    /\ \E tok \in TokensAtCursor : \E a \in NextTokens(tok) :
        /\ tok \in FormFlags
        /\ body' = formBranch(body, a)
        /\ i' = i + 2
        /\ Observe(tok, TRUE, a)
    /\ UNCHANGED <<pc, first, url, method, headers, auth, parsed, lang, output>>
    /\ UNCHANGED notCurl

FlagIgnored ==
    /\ Scanning
    /\ \E tok \in TokensAtCursor :
        /\ tok \in IgnoredFlags
        /\ i' = i + 1
        /\ Observe(tok, FALSE, NULL)
    /\ UNCHANGED <<pc, first, url, method, headers, body, auth, parsed, lang, output>>
    /\ UNCHANGED notCurl

FlagCookie ==
    /\ Scanning
    /\ \E tok \in TokensAtCursor : \E a \in NextTokens(tok) :
        /\ tok \in CookieFlags
        /\ headers' = headersAssign(headers, "Cookie", OrEmpty(a))
        /\ i' = i + 2
        /\ Observe(tok, TRUE, a)
    /\ UNCHANGED <<pc, first, url, method, body, auth, parsed, lang, output>>
    /\ UNCHANGED notCurl

FlagUserAgent ==
    /\ Scanning
    /\ \E tok \in TokensAtCursor : \E a \in NextTokens(tok) :
        /\ tok \in UserAgentFlags
        /\ headers' = headersAssign(headers, "User-Agent", OrEmpty(a))
        /\ i' = i + 2
        /\ Observe(tok, TRUE, a)
    /\ UNCHANGED <<pc, first, url, method, body, auth, parsed, lang, output>>
    /\ UNCHANGED notCurl

FlagReferer ==
    /\ Scanning
    /\ \E tok \in TokensAtCursor : \E a \in NextTokens(tok) :
        /\ tok \in RefererFlags
        /\ headers' = headersAssign(headers, "Referer", OrEmpty(a))
        /\ i' = i + 2
        /\ Observe(tok, TRUE, a)
    /\ UNCHANGED <<pc, first, url, method, body, auth, parsed, lang, output>>
    /\ UNCHANGED notCurl

\* the last branch of the chain: a token that is in no flag list and does
\* not start with "-" is the positional argument
Positional ==
    /\ Scanning
    /\ \E tok \in TokensAtCursor :
        /\ tok \notin ArgFlags \cup IgnoredFlags
        /\ ~startsWith(tok, "-")
        /\ url' = positionalBranch(url, tok)
        /\ i' = i + 1
        /\ Observe(tok, FALSE, NULL)
    /\ UNCHANGED <<pc, first, method, headers, body, auth, parsed, lang, output>>
    /\ UNCHANGED notCurl

\* a variant that skips the token after a token no branch takes
FlagUnknownSkips ==
    /\ Scanning
    /\ \E tok \in TokensAtCursor :
        /\ tok \notin ArgFlags \cup IgnoredFlags
        /\ startsWith(tok, "-")
        /\ i' = i + 2
        /\ Observe(tok, FALSE, NULL)
    /\ UNCHANGED <<pc, first, url, method, headers, body, auth, parsed, lang, output>>
    /\ UNCHANGED notCurl

\* a token no branch takes: in no flag list and starting with "-"
FlagUnknown ==
    /\ Scanning
    /\ \E tok \in TokensAtCursor :
        /\ tok \notin ArgFlags \cup IgnoredFlags
        /\ startsWith(tok, "-")
        /\ i' = i + 1
        /\ Observe(tok, FALSE, NULL)
    /\ UNCHANGED <<pc, first, url, method, headers, body, auth, parsed, lang, output>>
    /\ UNCHANGED notCurl

\* lines 377-392: the loop is over
ParseReturn ==
    /\ pc = "scan"
    /\ IF tokenArray = NULL THEN TRUE ELSE i >= Len(tokenArray.val)
    /\ parsed' = returnValue(url, method, headers, body, auth)
    /\ pc' = "done"
    /\ UNCHANGED <<first, i, url, method, headers, body, auth, lang, output, firstPlain, firstPositional, trailing, lastH, tokenArray, visited>>
    /\ UNCHANGED notCurl

Next ==
    \/ ParseBegin
    \/ FlagRequest
    \/ FlagHeader
    \/ FlagData
    \/ FlagUser
    \/ FlagJson
    \/ FlagForm
    \/ FlagIgnored
    \/ FlagCookie
    \/ FlagUserAgent
    \/ FlagReferer
    \/ Positional
    \/ FlagUnknown
    \/ ParseReturn

Spec == Init /\ [][Next]_vars

-----------------------------------------------------------------------------
(* generateCode over the models parseCurl returns *)

\* header-writing iterations the models are built from
HeaderWrites ==
    {<<"-H", "A: 1">>, <<"-H", "Authorization: Bearer t">>,
     <<"-H", "CONTENT-TYPE: application/json">>,
     <<"-H", "content-type: application/x-www-form-urlencoded">>,
     <<"--json", "">>, <<"-b", "c=1">>}

\* the headers object after the iteration w on h
applyWrite(h, w) ==
    IF w[1] \in HeaderFlags THEN headerBranch(h, Some(w[2]))
    ELSE IF w[1] \in JsonFlags THEN jsonHeaders(h)
    ELSE headersAssign(h, "Cookie", w[2])

RECURSIVE HeadersAfter(_)
HeadersAfter(k) ==
    IF k = 0 THEN {<<>>}
    ELSE HeadersAfter(k - 1)
             \cup {applyWrite(h, w) : h \in HeadersAfter(k - 1), w \in HeaderWrites}

\* what the scan can leave in its locals, and the model returned for it
Models ==
    {returnValue(u, m, h, b, au) :
        u \in PlainTokens \ {""},
        m \in {requestMethod(NULL), requestMethod(Some("put"))},
        h \in HeadersAfter(MaxHeaderFlags),
        b \in {NULL, Some(""), Some("a=1"), Some(" {\"a\":1}"), Some("[x"), Some("1")},
        au \in {NULL, userBranch(Some("admin:secret")), userBranch(Some("admin"))}}

InitGen ==
    /\ pc = "done"
    /\ parsed \in Models
    /\ first = Some("curl")
    /\ i = 1
    /\ url = ""
    /\ method = ""
    /\ headers = <<>>
    /\ body = NULL
    /\ auth = NULL
    /\ lang = NULL
    /\ output = NULL
    /\ firstPlain = NULL
    /\ firstPositional = NULL
    /\ trailing = NULL
    /\ lastH = {}
    /\ tokenArray = NULL
    /\ visited = {}
    /\ NotCurlIdle

\* generateCode(parsed, lang), called once parseCurl has returned a model
Generate ==
    /\ pc = "done"
    /\ parsed /= NULL
    /\ \E l \in Languages :
        /\ lang' = Some(l)
        /\ output' = Some(generateCode(parsed, l))
    /\ pc' = "generated"
    /\ UNCHANGED <<first, i, url, method, headers, body, auth, parsed, firstPlain,
                   firstPositional, trailing, lastH, tokenArray, visited>>
    /\ UNCHANGED notCurl

NextGen == Generate

SpecGen == InitGen /\ [][NextGen]_vars

\* urls for the nodejs generator: with and without a port, the port the
\* default of the scheme or not, schemes other than http and https, and
\* texts `new URL` rejects
NodeUrls ==
    {"https://x.io/a", "https://x.io:443/", "https://x.io:80/a", "https://x.io:8443",
     "http://x.io:8080/a?b=1", "http://x.io:443", "HTTP://X.io:80",
     "ws://x.io:8080/", "ftp://x.io:2121/a", "localhost:3000/x", "b.io"}

\* header-writing iterations behind the models of the nodejs generator
NodeHeaderWrites ==
    {<<"-H", "A: 1">>, <<"-H", "Content-Length: 5">>, <<"-H", "1: x">>}

RECURSIVE NodeHeadersAfter(_)
NodeHeadersAfter(k) ==
    IF k = 0 THEN {<<>>}
    ELSE NodeHeadersAfter(k - 1)
             \cup {applyWrite(h, w) : h \in NodeHeadersAfter(k - 1), w \in NodeHeaderWrites}

NodeModels ==
    {returnValue(u, requestMethod(NULL), h, b, au) :
        u \in NodeUrls,
        h \in NodeHeadersAfter(MaxHeaderFlags),
        b \in {NULL, Some(""), Some("a=1")},
        au \in {NULL, userBranch(Some("admin:secret"))}}

InitNode ==
    /\ pc = "done"
    /\ parsed \in NodeModels
    /\ first = Some("curl")
    /\ i = 1
    /\ url = ""
    /\ method = ""
    /\ headers = <<>>
    /\ body = NULL
    /\ auth = NULL
    /\ lang = NULL
    /\ output = NULL
    /\ firstPlain = NULL
    /\ firstPositional = NULL
    /\ trailing = NULL
    /\ lastH = {}
    /\ tokenArray = NULL
    /\ visited = {}
    /\ NotCurlIdle

SpecNode == InitNode /\ [][NextGen]_vars

\* deepest nesting of the JSON bodies handed to the generators
MaxNesting == 2

\* JSON texts: the literals, a number and a string that reads like a member,
\* put into arrays and objects
RECURSIVE JsonTexts(_)
JsonTexts(d) ==
    IF d = 0 THEN {"true", "false", "null", "1", "\"a: true\""}
    ELSE JsonTexts(d - 1)
             \cup {"[" \o t \o "]" : t \in JsonTexts(d - 1)}
             \cup {"[1, " \o t \o "]" : t \in JsonTexts(d - 1)}
             \cup {"{\"k\": " \o t \o "}" : t \in JsonTexts(d - 1)}

\* models with a JSON body, sent with and without a JSON content type
JsonModels ==
    {returnValue("https://x.io/a", requestMethod(NULL), h, Some(b), NULL) :
        h \in {<<>>, headerBranch(<<>>, Some("Content-Type: application/json"))},
        b \in JsonTexts(MaxNesting)}

InitJson ==
    /\ pc = "done"
    /\ parsed \in JsonModels
    /\ first = Some("curl")
    /\ i = 1
    /\ url = ""
    /\ method = ""
    /\ headers = <<>>
    /\ body = NULL
    /\ auth = NULL
    /\ lang = NULL
    /\ output = NULL
    /\ firstPlain = NULL
    /\ firstPositional = NULL
    /\ trailing = NULL
    /\ lastH = {}
    /\ tokenArray = NULL
    /\ visited = {}
    /\ NotCurlIdle

SpecJson == InitJson /\ [][NextGen]_vars

-----------------------------------------------------------------------------
(* parseCurl on token arrays given in full *)

\* tokens after the leading part of an array
MaxTail == 3

\* what the arrays are written from: the leading part sets a header, the
\* credentials or nothing, the tail is any sequence of these tokens
LeadingTokens ==
    {<<>>, <<"-H", "Content-Type: text/plain">>, <<"-H", "Accept: */*">>,
     <<"-d", "a=1">>, <<"-H", "Content-Type: text/plain", "-d", "a=1">>,
     <<"-b", "c=1">>, <<"-A", "ua/1">>, <<"-e", "b.io">>, <<"-u", "admin:secret">>}
TailTokens == {"-d", "-X", "--json", "-F", "-L", "--foo", "https://x"}

RECURSIVE TokenTails(_)
TokenTails(n) ==
    IF n = 0 THEN {<<>>}
    ELSE TokenTails(n - 1)
             \cup {Append(t, x) : t \in {u \in TokenTails(n - 1) : Len(u) = n - 1},
                                  x \in TailTokens}

TokenArrays == {<<"curl">> \o l \o t : l \in LeadingTokens, t \in TokenTails(MaxTail)}

InitArr ==
    /\ pc = "start"
    /\ tokenArray \in {Some(t) : t \in TokenArrays}
    /\ first = Some(tokenArray.val[1])
    /\ i = 1
    /\ url = ""
    /\ method = ""
    /\ headers = <<>>
    /\ body = NULL
    /\ auth = NULL
    /\ parsed = NULL
    /\ lang = NULL
    /\ output = NULL
    /\ firstPlain = NULL
    /\ firstPositional = NULL
    /\ trailing = NULL
    /\ lastH = {}
    /\ visited = {}
    /\ NotCurlIdle

SpecArr == InitArr /\ [][Next]_vars

-----------------------------------------------------------------------------
(* tokenizeCurl *)

\* longest input text handed to tokenizeCurl
MaxInput == 4

\* most tokens in a sequence written out as text and tokenized again
MaxSeq == 2

\* longest input text of the runs checked for termination
MaxFairInput == 3

\* the characters the input texts are written with
TokChars == {"a", " ", "'", "\"", "\\", "n", "\n"}

RECURSIVE Texts(_)
Texts(k) ==
    IF k = 0 THEN {""}
    ELSE Texts(k - 1) \cup {t \o c : t \in Texts(k - 1), c \in TokChars}

\* line 250: `input.trim().replace(/\\\n/g, " ").replace(/\\\r\n/g, " ")`
collapse(input) == replaceAll(replaceAll(trim(input), "\\\n", " "), "\\\r\n", " ")

\* lines 253-254: `while (i < s.length && /\s/.test(s[i])) i++;`
RECURSIVE skipWhitespace(_, _)
skipWhitespace(s, k) ==
    IF k < Len(s) /\ IsSpace(CharAt(s, k + 1)) THEN skipWhitespace(s, k + 1) ELSE k

\* a variant that emits nothing for a quote that is never closed
singleQuotedClosedOnly(s, k, tok) ==
    LET q == PosFrom(s, "'", k + 1)
    IN  IF q = 0 THEN [tok |-> "", i |-> Len(s) + 1]
        ELSE [tok |-> tok \o SubSeq(s, k + 1, q - 1), i |-> q]

\* a variant that trims the quoted text
singleQuotedTrimmed(s, k, tok) ==
    LET q == PosFrom(s, "'", k + 1)
    IN  IF q = 0 THEN [tok |-> tok \o trim(SubSeq(s, k + 1, Len(s))), i |-> Len(s) + 1]
        ELSE [tok |-> tok \o trim(SubSeq(s, k + 1, q - 1)), i |-> q]

\* lines 258-264, from the character after the opening quote: the token and
\* the cursor after `i++; // closing quote`
RECURSIVE singleQuoted(_, _, _)
singleQuoted(s, k, tok) ==
    IF k < Len(s) /\ CharAt(s, k + 1) /= "'"
    THEN singleQuoted(s, k + 1, tok \o CharAt(s, k + 1))
    ELSE [tok |-> tok, i |-> k + 1]

\* a variant without escape processing
escapedLiteral(c) == c

\* lines 272-276: the character an escape in double quotes stands for
escaped(c) ==
    IF c = "n" THEN "\n"
    ELSE IF c = "t" THEN "\t"
    ELSE IF c = "r" THEN "\r"
    ELSE c

\* lines 267-284, from the character after the opening quote
RECURSIVE doubleQuoted(_, _, _)
doubleQuoted(s, k, tok) ==
    IF k < Len(s) /\ CharAt(s, k + 1) /= "\""
    THEN IF CharAt(s, k + 1) = "\\" /\ k + 1 < Len(s)
         THEN doubleQuoted(s, k + 2, tok \o escaped(CharAt(s, k + 2)))
         ELSE doubleQuoted(s, k + 1, tok \o CharAt(s, k + 1))
    ELSE [tok |-> tok, i |-> k + 1]

\* a variant in which a quote character ends an unquoted token too
RECURSIVE unquotedToQuote(_, _, _)
unquotedToQuote(s, k, tok) ==
    IF k < Len(s) /\ ~IsSpace(CharAt(s, k + 1))
       /\ (tok = "" \/ CharAt(s, k + 1) \notin {"'", "\""})
    THEN unquotedToQuote(s, k + 1, tok \o CharAt(s, k + 1))
    ELSE [tok |-> tok, i |-> k]

\* lines 286-291: an unquoted token runs to the next whitespace
RECURSIVE unquoted(_, _, _)
unquoted(s, k, tok) ==
    IF k < Len(s) /\ ~IsSpace(CharAt(s, k + 1))
    THEN unquoted(s, k + 1, tok \o CharAt(s, k + 1))
    ELSE [tok |-> tok, i |-> k]

\* lines 252-293: the scan loop from cursor k with the tokens collected so far
RECURSIVE scanLoop(_, _, _)
scanLoop(s, k, tokens) ==
    LET j == skipWhitespace(s, k)
        r == IF CharAt(s, j + 1) = "'" THEN singleQuoted(s, j + 1, "")
             ELSE IF CharAt(s, j + 1) = "\"" THEN doubleQuoted(s, j + 1, "")
             ELSE unquoted(s, j, "")
    IN  IF j >= Len(s) THEN tokens
        ELSE scanLoop(s, r.i, Append(tokens, r.tok))

\* tokenizeCurl as the function its callers see
tokenizeCurl(input) == scanLoop(collapse(input), 0, <<>>)

\* lines 248-250: the locals before the scan loop
TokBegin ==
    /\ tpc = "start"
    /\ ts' = collapse(tinput)
    /\ ti' = 0
    /\ ttokens' = <<>>
    /\ tpc' = "scan"
    /\ UNCHANGED <<tinput, tseq>>
    /\ UNCHANGED notTok

\* one iteration of the scan loop that is past the whitespace and not at the
\* end of s: the character at cursor k
TokAt(k) ==
    /\ tpc = "scan"
    /\ ti < Len(ts)
    /\ k = skipWhitespace(ts, ti)
    /\ k < Len(ts)

\* lines 257-265
TokSingle ==
    /\ \E k \in 0..Len(ts) :
        /\ TokAt(k)
        /\ CharAt(ts, k + 1) = "'"
        /\ LET r == singleQuoted(ts, k + 1, "")
           IN  ttokens' = Append(ttokens, r.tok) /\ ti' = r.i
    /\ UNCHANGED <<tpc, tinput, ts, tseq>>
    /\ UNCHANGED notTok

\* lines 266-285
TokDouble ==
    /\ \E k \in 0..Len(ts) :
        /\ TokAt(k)
        /\ CharAt(ts, k + 1) = "\""
        /\ LET r == doubleQuoted(ts, k + 1, "")
           IN  ttokens' = Append(ttokens, r.tok) /\ ti' = r.i
    /\ UNCHANGED <<tpc, tinput, ts, tseq>>
    /\ UNCHANGED notTok

\* lines 286-292
TokUnquoted ==
    /\ \E k \in 0..Len(ts) :
        /\ TokAt(k)
        /\ CharAt(ts, k + 1) \notin {"'", "\""}
        /\ LET r == unquoted(ts, k, "")
           IN  ttokens' = Append(ttokens, r.tok) /\ ti' = r.i
    /\ UNCHANGED <<tpc, tinput, ts, tseq>>
    /\ UNCHANGED notTok

\* the loop condition `i < s.length` fails, or line 255 breaks out of the
\* loop with only whitespace left: `return tokens`
TokReturn ==
    /\ tpc = "scan"
    /\ skipWhitespace(ts, ti) >= Len(ts)
    /\ tpc' = "done"
    /\ UNCHANGED <<tinput, ts, ti, ttokens, tseq>>
    /\ UNCHANGED notTok

InitTok ==
    /\ tpc = "start"
    /\ tinput \in Texts(MaxInput)
    /\ ts = ""
    /\ ti = 0
    /\ ttokens = <<>>
    /\ tseq = NULL
    /\ NotTokIdle

NextTok ==
    \/ TokBegin
    \/ TokSingle
    \/ TokDouble
    \/ TokUnquoted
    \/ TokReturn

SpecTok == InitTok /\ [][NextTok]_vars

InitTokFair ==
    /\ InitTok
    /\ Len(tinput) <= MaxFairInput

\* the scan loop runs to its end
SpecTokFair == InitTokFair /\ [][NextTok]_vars /\ WF_vars(NextTok)

\* tokens written out and tokenized again
RoundTokens == {"a", "n", "a n", " a", "\n", "a'n", "n\"a", "'a", "a 'n", "a \"n", "\\n", "a \\", ""}

RECURSIVE Seqs(_, _)
Seqs(S, k) ==
    IF k = 0 THEN {<<>>}
    ELSE Seqs(S, k - 1) \cup {Append(q, x) : q \in Seqs(S, k - 1), x \in S}

HasSpace(tok) == \E k \in 1..Len(tok) : IsSpace(CharAt(tok, k))

\* a token as it is written out: between two quote characters q when it
\* contains whitespace, as it is otherwise
requote(tok, q) == IF HasSpace(tok) THEN q \o tok \o q ELSE tok

RECURSIVE requoteAll(_, _)
requoteAll(T, q) ==
    IF T = <<>> THEN <<>> ELSE <<requote(Head(T), q)>> \o requoteAll(Tail(T), q)

\* the tokens joined with single spaces
serialize(T, q) == join(requoteAll(T, q), " ")

InitRound ==
    /\ tpc = "start"
    /\ \E T \in Seqs(RoundTokens, MaxSeq) : \E q \in {"'", "\""} :
        /\ tseq = [tokens |-> T, quote |-> q]
        /\ tinput = serialize(T, q)
    /\ ts = ""
    /\ ti = 0
    /\ ttokens = <<>>
    /\ NotTokIdle

SpecRound == InitRound /\ [][NextTok]_vars

-----------------------------------------------------------------------------
(* parseCurl as the function its caller sees, and the component *)

\* copy clicks whose clipboard write or reset timer is still outstanding
MaxCopies == 2

\* lines 310-375: the loop from cursor k (0-based) over the whole token array,
\* on the locals st
RECURSIVE scanFlags(_, _, _)
scanFlags(tokens, k, st) ==
    IF k >= Len(tokens) THEN st
    ELSE LET tok == tokens[k + 1]
             a == IF k + 1 < Len(tokens) THEN Some(tokens[k + 2]) ELSE NULL
         IN  IF tok \in RequestFlags
             THEN scanFlags(tokens, k + 2, [st EXCEPT !.method = requestMethod(a)])
             ELSE IF tok \in HeaderFlags
             THEN scanFlags(tokens, k + 2, [st EXCEPT !.headers = headerBranch(st.headers, a)])
             ELSE IF tok \in DataFlags
             THEN scanFlags(tokens, k + 2, [st EXCEPT !.body = Some(OrEmpty(a))])
             ELSE IF tok \in UserFlags
             THEN scanFlags(tokens, k + 2, [st EXCEPT !.auth = userBranch(a)])
             ELSE IF tok \in JsonFlags
             THEN scanFlags(tokens, k + 2,
                            [st EXCEPT !.body = Some(OrEmpty(a)),
                                       !.headers = jsonHeaders(st.headers)])
             ELSE IF tok \in FormFlags
             THEN scanFlags(tokens, k + 2, [st EXCEPT !.body = formBranch(st.body, a)])
             ELSE IF tok \in IgnoredFlags
             THEN scanFlags(tokens, k + 1, st)
             ELSE IF tok \in CookieFlags
             THEN scanFlags(tokens, k + 2,
                            [st EXCEPT !.headers = headersAssign(st.headers, "Cookie", OrEmpty(a))])
             ELSE IF tok \in UserAgentFlags
             THEN scanFlags(tokens, k + 2,
                            [st EXCEPT !.headers = headersAssign(st.headers, "User-Agent", OrEmpty(a))])
             ELSE IF tok \in RefererFlags
             THEN scanFlags(tokens, k + 2,
                            [st EXCEPT !.headers = headersAssign(st.headers, "Referer", OrEmpty(a))])
             ELSE IF ~startsWith(tok, "-")
             THEN scanFlags(tokens, k + 1, [st EXCEPT !.url = positionalBranch(st.url, tok)])
             ELSE scanFlags(tokens, k + 1, st)

\* lines 297-393
parseCurl(raw) ==
    LET tokens == tokenizeCurl(raw)
        st == scanFlags(tokens, 1,
                        [url |-> "", method |-> "", headers |-> <<>>,
                         body |-> NULL, auth |-> NULL])
    IN  IF notACommand(IF tokens = <<>> THEN NULL ELSE Some(tokens[1])) THEN NULL
        ELSE returnValue(st.url, st.method, st.headers, st.body, st.auth)

\* lines 776-778
ParseError ==
    "Could not parse the cURL command. Make sure it starts with 'curl' and includes a URL."

\* line 814
CopyError == "Failed to copy to clipboard."

\* a variant that shows no message when the command does not parse
convertSilent(raw, l) ==
    LET p == parseCurl(trim(raw))
    IN  IF trim(raw) = "" \/ p = NULL THEN [output |-> "", error |-> ""]
        ELSE [output |-> generateCode(p, l), error |-> ""]

\* a variant that renders for the language the component started with
convertFirstLanguage(raw, l) ==
    LET p == parseCurl(trim(raw))
    IN  IF trim(raw) = "" THEN [output |-> "", error |-> ""]
        ELSE IF p = NULL THEN [output |-> "", error |-> ParseError]
        ELSE [output |-> generateCode(p, "js-fetch"), error |-> ""]

\* lines 765-785: the output and the error convert sets
convert(raw, l) ==
    LET trimmed == trim(raw)
        p == parseCurl(trimmed)
    IN  IF trimmed = "" THEN [output |-> "", error |-> ""]
        ELSE IF p = NULL THEN [output |-> "", error |-> ParseError]
        ELSE [output |-> generateCode(p, l), error |-> ""]

\* lines 740-746: two of the five samples, by their keys
SampleKeys == {"GET with headers", "Basic auth"}

SAMPLES(key) ==
    IF key = "GET with headers"
    THEN "curl https://api.example.com/users \\\n  -H 'Authorization: Bearer YOUR_TOKEN' \\\n  -H 'Accept: application/json'"
    ELSE "curl https://api.example.com/secure \\\n  -u username:password"

\* texts typed into the textarea
UiInputs ==
    {"", " \n", "wget https://x.io/a", "curl", "curl -d a=1", " CURL https://x.io/a ",
     "curl -X put b.io -d ''", "curl 'https://x.io/a' \\\n -u admin"}

InitUi ==
    /\ curlInput = ""
    /\ language = "js-fetch"
    /\ uiOutput = ""
    /\ uiError = ""
    /\ copySuccess = FALSE
    /\ writes = 0
    /\ timers = 0
    /\ cleared = FALSE
    /\ NotUiIdle

\* lines 787-791
handleInputChange ==
    /\ \E val \in UiInputs :
        /\ curlInput' = val
        /\ \E r \in {convert(val, language)} : uiOutput' = r.output /\ uiError' = r.error
    /\ UNCHANGED <<language, copySuccess, writes, timers, cleared>>
    /\ UNCHANGED notUi

\* lines 793-797
handleLanguageChange ==
    /\ \E l \in Languages :
        /\ language' = l
        /\ \E r \in {convert(curlInput, l)} : uiOutput' = r.output /\ uiError' = r.error
    /\ UNCHANGED <<curlInput, copySuccess, writes, timers, cleared>>
    /\ UNCHANGED notUi

\* lines 799-805; a key SAMPLES does not hold changes nothing
handleLoadSample ==
    /\ \E sampleKey \in SampleKeys \cup {"other"} :
        IF sampleKey \in SampleKeys
        THEN /\ curlInput' = SAMPLES(sampleKey)
             /\ \E r \in {convert(SAMPLES(sampleKey), language)} : uiOutput' = r.output /\ uiError' = r.error
        ELSE UNCHANGED <<curlInput, uiOutput, uiError>>
    /\ UNCHANGED <<language, copySuccess, writes, timers, cleared>>
    /\ UNCHANGED notUi

\* lines 807-810: a click with an output starts a clipboard write
handleCopy ==
    /\ uiOutput /= ""
    /\ writes + timers < MaxCopies
    /\ writes' = writes + 1
    /\ cleared' = FALSE
    /\ UNCHANGED <<curlInput, language, uiOutput, uiError, copySuccess, timers>>
    /\ UNCHANGED notUi

\* lines 811-812: the write resolved
copyResolved ==
    /\ writes > 0
    /\ writes' = writes - 1
    /\ copySuccess' = TRUE
    /\ timers' = timers + 1
    /\ UNCHANGED <<curlInput, language, uiOutput, uiError, cleared>>
    /\ UNCHANGED notUi

\* lines 813-815: the write was rejected
copyRejected ==
    /\ writes > 0
    /\ writes' = writes - 1
    /\ uiError' = CopyError
    /\ UNCHANGED <<curlInput, language, uiOutput, copySuccess, timers, cleared>>
    /\ UNCHANGED notUi

\* line 812: a 2-second timer fires
copyTimeout ==
    /\ timers > 0
    /\ timers' = timers - 1
    /\ copySuccess' = FALSE
    /\ UNCHANGED <<curlInput, language, uiOutput, uiError, writes, cleared>>
    /\ UNCHANGED notUi

\* lines 818-823
handleClear ==
    /\ curlInput' = ""
    /\ uiOutput' = ""
    /\ uiError' = ""
    /\ copySuccess' = FALSE
    /\ cleared' = TRUE
    /\ UNCHANGED <<language, writes, timers>>
    /\ UNCHANGED notUi

NextUi ==
    \/ handleInputChange
    \/ handleLanguageChange
    \/ handleLoadSample
    \/ handleCopy
    \/ copyResolved
    \/ copyRejected
    \/ copyTimeout
    \/ handleClear

SpecUi == InitUi /\ [][NextUi]_vars

-----------------------------------------------------------------------------
(* The DNS lookup route: GET of the dns-lookup endpoint *)

endsWith(s, p) == Len(s) >= Len(p) /\ SubSeq(s, Len(s) - Len(p) + 1, Len(s)) = p

\* String.prototype.replace(/\.$/, "")
stripDot(s) == IF endsWith(s, ".") THEN SubSeq(s, 1, Len(s) - 1) ELSE s

\* String.prototype.split with a one-character separator
RECURSIVE split(_, _)
split(s, sep) ==
    LET p == PosFrom(s, sep, 1)
    IN  IF p = 0 THEN <<s>>
        ELSE <<SubSeq(s, 1, p - 1)>> \o split(SubSeq(s, p + 1, Len(s)), sep)

RECORD_TYPE_CODES ==
    <<<<"A", 1>>, <<"AAAA", 28>>, <<"CNAME", 5>>, <<"MX", 15>>, <<"TXT", 16>>, <<"NS", 2>>>>

\* RECORD_TYPE_CODES[type] is truthy
IsRecordType(type) == \E k \in DOMAIN RECORD_TYPE_CODES : RECORD_TYPE_CODES[k][1] = type

typeNames ==
    <<<<1, "A">>, <<28, "AAAA">>, <<5, "CNAME">>, <<15, "MX">>, <<16, "TXT">>, <<2, "NS">>,
      <<6, "SOA">>, <<12, "PTR">>, <<33, "SRV">>, <<257, "CAA">>>>

getRecordTypeName(typeCode) ==
    IF \E k \in DOMAIN typeNames : typeNames[k][1] = typeCode
    THEN typeNames[CHOOSE k \in DOMAIN typeNames : typeNames[k][1] = typeCode][2]
    ELSE "TYPE" \o ToString(typeCode)

cleanRecordData(data, type) ==
    LET cleaned == stripDot(data)
    IN  IF type = "TXT" /\ startsWith(cleaned, "\"") /\ endsWith(cleaned, "\"")
        THEN SubSeq(cleaned, 2, Len(cleaned) - 1)
        ELSE cleaned

\* parseInt(s, 10) || 0 of a text without sign or leading blanks
parseIntOrZero(s) ==
    LET k == DigitRun(s) IN IF k = 0 THEN 0 ELSE toNat(SubSeq(s, 1, k))

parseMXRecord(data) ==
    LET parts == split(data, " ")
    IN  IF Len(parts) >= 2
        THEN [priority |-> parseIntOrZero(parts[1]),
              exchange |-> stripDot(join(Tail(parts), " "))]
        ELSE [priority |-> 0, exchange |-> data]

IsLetter(c) == PosFrom(UpperLetters, c, 1) /= 0 \/ PosFrom(LowerLetters, c, 1) /= 0

\* the class [A-Za-z0-9-]
IsLabelChar(c) == IsLetter(c) \/ IsDigit(c) \/ c = "-"

AllOf(s, Class(_)) == \A k \in 1..Len(s) : Class(CharAt(s, k))

\* the label before the first dot under domainRegex: (?!-)[A-Za-z0-9-]{1,63}(?<!-)
firstLabel(l) ==
    /\ Len(l) \in 1..63
    /\ AllOf(l, IsLabelChar)
    /\ ~startsWith(l, "-")
    /\ ~endsWith(l, "-")

\* the same under punycodeRegex: (?!-)(xn--)?[A-Za-z0-9-]{1,63}(?<!-)
firstLabelPunycode(l) ==
    \/ firstLabel(l)
    \/ /\ startsWith(l, "xn--")
       /\ Len(l) \in 5..67
       /\ AllOf(l, IsLabelChar)
       /\ ~endsWith(l, "-")

isValidDomain(domain) ==
    LET labels == split(domain, ".")
        n == Len(labels)
    IN  /\ domain /= ""
        /\ Len(domain) <= 253
        /\ n >= 2
        /\ firstLabel(labels[1]) \/ firstLabelPunycode(labels[1])
        /\ \A k \in 2..(n - 1) : Len(labels[k]) \in 1..63 /\ AllOf(labels[k], IsLabelChar)
        /\ Len(labels[n]) >= 2
        /\ AllOf(labels[n], IsLetter)

\* searchParams.get("domain")?.trim().toLowerCase(): NULL stands for undefined
domainOf(q) == IF q.domain = NULL THEN NULL ELSE Some(toLowerCase(trim(q.domain.val)))

typeOf(q) ==
    IF q.type = NULL \/ q.type.val = "" THEN "A" ELSE toUpperCase(q.type.val)

providerOf(q) ==
    IF q.provider = NULL \/ q.provider.val = "" THEN "cloudflare"
    ELSE toLowerCase(q.provider.val)

cleanDomainOf(domain) ==
    LET a == IF startsWith(domain, "https://") THEN sliceFrom(domain, 8)
             ELSE IF startsWith(domain, "http://") THEN sliceFrom(domain, 7)
             ELSE domain
        p == PosFrom(a, "/", 1)
        b == IF p = 0 THEN a ELSE SubSeq(a, 1, p - 1)
    IN  IF startsWith(b, "www.") THEN sliceFrom(b, 4) ELSE b

\* the provider the inner try queries, and the one its catch queries
primaryOf(provider) == IF provider = "google" THEN "google" ELSE "cloudflare"
fallbackOf(provider) == IF provider = "google" THEN "cloudflare" ELSE "google"

\* a response of the route; queryTime is wall-clock time and is left out
Response(status, success, error, domain, type, records, provider, cache) ==
    [status |-> status, success |-> success, error |-> error, domain |-> domain,
     recordType |-> type, records |-> records, provider |-> provider, cache |-> cache]

SupportedTypes == "A, AAAA, CNAME, MX, TXT, NS"

dnsErrors ==
    <<"Format error - DNS server unable to interpret query",
      "Server failure - DNS server encountered an internal error",
      "Domain does not exist (NXDOMAIN)",
      "Not implemented - DNS server does not support requested query type",
      "Query refused - DNS server refused the query">>

\* one entry of `records` from one entry of dohResponse.Answer
recordOf(answer) ==
    LET recordTypeName == getRecordTypeName(answer.type)
        record == [name |-> stripDot(answer.name), type |-> recordTypeName,
                   ttl |-> answer.TTL, data |-> cleanRecordData(answer.data, recordTypeName)]
        mxData == parseMXRecord(answer.data)
    IN  IF recordTypeName = "MX"
        THEN [name |-> record.name, type |-> record.type, ttl |-> record.ttl,
              data |-> mxData.exchange, priority |-> mxData.priority]
        ELSE record

\* a.priority || 0
priorityOf(r) == IF "priority" \in DOMAIN r THEN r.priority ELSE 0

\* Array.prototype.sort by priority: stable
RECURSIVE sortByPriority(_)
sortByPriority(rs) ==
    IF rs = <<>> THEN <<>>
    ELSE LET k == CHOOSE j \in DOMAIN rs :
                      /\ \A m \in DOMAIN rs : priorityOf(rs[j]) <= priorityOf(rs[m])
                      /\ \A m \in 1..(j - 1) : priorityOf(rs[m]) > priorityOf(rs[j])
         IN  <<rs[k]>> \o sortByPriority(SubSeq(rs, 1, k - 1) \o SubSeq(rs, k + 1, Len(rs)))

\* the response of the outer catch
caught(message, q) ==
    Response(500, FALSE, message, cleanDomainOf(domainOf(q).val), typeOf(q), <<>>,
             providerOf(q), FALSE)

\* lines 248-318: what GET returns once a provider's query has resolved to the
\* JSON value doh.  Reading a property of null raises a TypeError, which the
\* outer catch turns into the 500 response.
answered(doh, usedProvider, q) ==
    LET cleanDomain == cleanDomainOf(domainOf(q).val)
        type == typeOf(q)
        status == IF "Status" \in DOMAIN doh THEN Some(doh.Status) ELSE NULL
        answers == IF "Answer" \in DOMAIN doh THEN doh.Answer ELSE <<>>
        records == [k \in DOMAIN answers |-> recordOf(answers[k])]
    IN  IF doh = NULL
        THEN caught("Cannot read properties of null (reading 'Status')", q)
        ELSE IF status /= Some(0)
        THEN Response(200, FALSE,
                      IF status /= NULL /\ status.val \in DOMAIN dnsErrors
                      THEN dnsErrors[status.val]
                      ELSE "DNS error code: " \o
                           (IF status = NULL THEN "undefined" ELSE ToString(status.val)),
                      cleanDomain, type, <<>>, usedProvider, FALSE)
        ELSE Response(200, TRUE, "", cleanDomain, type,
                      IF type = "MX" THEN sortByPriority(records) ELSE records,
                      usedProvider, TRUE)

\* the search parameters of the requests of the model
DomainParams ==
    {NULL, Some(""), Some("example.com"), Some(" HTTPS://www.Example.com/x "),
     Some("bad_domain"), Some("-a.io")}

TypeParams == {NULL, Some("mx"), Some("TXT"), Some("PTR")}

ProviderParams == {NULL, Some("google"), Some("Google"), Some("cloudflare"), Some("quad9")}

\* JSON values response.json() resolves to
DohBodies ==
    {NULL,
     [Comment |-> "x"],
     [Status |-> 3],
     [Status |-> 0],
     [Status |-> 0, Answer |-> <<>>],
     [Status |-> 0, Answer |-> <<[name |-> "example.com.", type |-> 1, TTL |-> 300,
                                  data |-> "93.184.216.34"]>>],
     [Status |-> 0, Answer |-> <<[name |-> "example.com.", type |-> 16, TTL |-> 60,
                                  data |-> "\"v=spf1 -all\""]>>],
     [Status |-> 0, Answer |-> <<[name |-> "example.com.", type |-> 15, TTL |-> 60,
                                  data |-> "20 b.example.com."],
                                 [name |-> "example.com.", type |-> 15, TTL |-> 60,
                                  data |-> "10 a.example.com."]>>]}

queryName(provider) == IF provider = "google" THEN "Google" ELSE "Cloudflare"

\* messages of the errors queryCloudflare and queryGoogle end with: fetch
\* rejects, or the HTTP response is not ok
QueryErrors(provider) ==
    {"fetch failed", queryName(provider) \o " DNS query failed: Service Unavailable"}

InitDns ==
    /\ dpc = "start"
    /\ dparams \in [domain : DomainParams, type : TypeParams, provider : ProviderParams]
    /\ dqueried = <<>>
    /\ dfailed = <<>>
    /\ dresponse = <<>>
    /\ NotDnsIdle

\* lines 162-235: the parameters are read and validated; a request that passes
\* calls the primary provider's query function
GET ==
    /\ dpc = "start"
    /\ LET domain == domainOf(dparams)
           type == typeOf(dparams)
           provider == providerOf(dparams)
           cleanDomain == cleanDomainOf(domain.val)
           bad(error, dom) == Response(400, FALSE, error, dom, type, <<>>, provider, FALSE)
       IN  IF domain = NULL \/ domain.val = ""
           THEN /\ dresponse' = <<bad("Domain parameter is required", "")>>
                /\ dpc' = "done"
                /\ UNCHANGED dqueried
           ELSE IF ~isValidDomain(cleanDomain)
           THEN /\ dresponse' = <<bad("Invalid domain format", cleanDomain)>>
                /\ dpc' = "done"
                /\ UNCHANGED dqueried
           ELSE IF ~IsRecordType(type)
           THEN /\ dresponse' = <<bad("Invalid record type. Supported types: " \o SupportedTypes,
                                      cleanDomain)>>
                /\ dpc' = "done"
                /\ UNCHANGED dqueried
           ELSE /\ dqueried' = <<primaryOf(provider)>>
                /\ dpc' = "primary"
                /\ UNCHANGED dresponse
    /\ UNCHANGED <<dparams, dfailed>>
    /\ UNCHANGED notDns

\* the await of the inner try resumes with the provider's JSON value
primaryResolved ==
    /\ dpc = "primary"
    /\ \E doh \in DohBodies :
           dresponse' = <<answered(doh, primaryOf(providerOf(dparams)), dparams)>>
    /\ dpc' = "done"
    /\ UNCHANGED <<dparams, dqueried, dfailed>>
    /\ UNCHANGED notDns

\* the await of the inner try throws (fetch rejects, the HTTP response is not
\* ok, or its body is not JSON): the catch calls the other provider
primaryRejected ==
    /\ dpc = "primary"
    /\ dfailed' = Append(dfailed, primaryOf(providerOf(dparams)))
    /\ dqueried' = Append(dqueried, fallbackOf(providerOf(dparams)))
    /\ dpc' = "fallback"
    /\ UNCHANGED <<dparams, dresponse>>
    /\ UNCHANGED notDns

fallbackResolved ==
    /\ dpc = "fallback"
    /\ \E doh \in DohBodies :
           dresponse' = <<answered(doh, fallbackOf(providerOf(dparams)), dparams)>>
    /\ dpc' = "done"
    /\ UNCHANGED <<dparams, dqueried, dfailed>>
    /\ UNCHANGED notDns

\* the await in the catch throws: the outer catch answers
fallbackRejected ==
    /\ dpc = "fallback"
    /\ \E message \in QueryErrors(fallbackOf(providerOf(dparams))) :
           dresponse' = <<caught(message, dparams)>>
    /\ dfailed' = Append(dfailed, fallbackOf(providerOf(dparams)))
    /\ dpc' = "done"
    /\ UNCHANGED <<dparams, dqueried>>
    /\ UNCHANGED notDns

NextDns ==
    \/ GET
    \/ primaryResolved
    \/ primaryRejected
    \/ fallbackResolved
    \/ fallbackRejected

SpecDns == InitDns /\ [][NextDns]_vars

-----------------------------------------------------------------------------
(* The DnsLookupSimulator component *)

\* what the model types into the domain input and selects
LookupDomains == {"", " ", "a.io", " a.io "}
LookupTypes == {"A", "MX"}
DNS_PROVIDERS == {"cloudflare", "google"}

\* what the route answers a request with: records, no records, or an error
RouteBodies(q) ==
    {[success |-> TRUE, domain |-> q.domain, recordType |-> q.recordType,
      records |-> <<"r0">>, queryTime |-> 1, provider |-> q.provider, error |-> NULL],
     [success |-> TRUE, domain |-> q.domain, recordType |-> q.recordType,
      records |-> <<>>, queryTime |-> 1, provider |-> q.provider, error |-> NULL],
     [success |-> FALSE, domain |-> q.domain, recordType |-> q.recordType,
      records |-> <<>>, queryTime |-> 1, provider |-> q.provider,
      error |-> Some("DNS lookup failed")]}

\* what fetch rejects with, and what response.json() rejects with
FetchErrors == {[isError |-> TRUE, message |-> "Failed to fetch"]}
JsonErrors == {[isError |-> TRUE, message |-> "Unexpected token < in JSON at position 0"]}

\* lines 50-58
blankResult(t, p) ==
    [success |-> FALSE, domain |-> "", recordType |-> t, records |-> <<>>,
     queryTime |-> 0, provider |-> p, error |-> Some("Please enter a domain name")]

\* lines 78-86
caughtResult(q, e) ==
    [success |-> FALSE, domain |-> q.domain, recordType |-> q.recordType,
     records |-> <<>>, queryTime |-> 0, provider |-> q.provider,
     error |-> Some(IF e.isError THEN e.message ELSE "Network error occurred")]

InitLookup ==
    /\ LookupIdle
    /\ NotLookupIdle

\* the input and the two selects, disabled while loading
setDomain ==
    /\ ~loading
    /\ \E v \in LookupDomains : lookupDomain' = v
    /\ UNCHANGED <<recordType, lookupProvider, loading, result, copiedIndex, copiedAll, lpc, lrequest, lwrites, ltimers>>
    /\ UNCHANGED notLookup

setRecordType ==
    /\ ~loading
    /\ \E t \in LookupTypes : recordType' = t
    /\ UNCHANGED <<lookupDomain, lookupProvider, loading, result, copiedIndex, copiedAll, lpc, lrequest, lwrites, ltimers>>
    /\ UNCHANGED notLookup

setProvider ==
    /\ ~loading
    /\ \E p \in DNS_PROVIDERS : lookupProvider' = p
    /\ UNCHANGED <<lookupDomain, recordType, loading, result, copiedIndex, copiedAll, lpc, lrequest, lwrites, ltimers>>
    /\ UNCHANGED notLookup

\* a variant that keeps the previous result while the request is out
performLookupKeepsResult ==
    /\ ~loading
    /\ IF trim(lookupDomain) = ""
       THEN /\ result' = blankResult(recordType, lookupProvider)
            /\ UNCHANGED <<loading, copiedIndex, copiedAll, lpc, lrequest>>
       ELSE /\ loading' = TRUE
            /\ copiedIndex' = NULL
            /\ copiedAll' = FALSE
            /\ lpc' = "fetch"
            /\ lrequest' = Some([domain |-> trim(lookupDomain),
                                 recordType |-> recordType, provider |-> lookupProvider])
            /\ UNCHANGED result
    /\ UNCHANGED <<lookupDomain, recordType, lookupProvider, lwrites, ltimers>>
    /\ UNCHANGED notLookup

\* lines 48-72: performLookup up to `await fetch(...)`, from the Lookup
\* button (disabled while loading) or the Enter key (line 93: `!loading`)
performLookup ==
    /\ ~loading
    /\ IF trim(lookupDomain) = ""
       THEN /\ result' = blankResult(recordType, lookupProvider)
            /\ UNCHANGED <<loading, copiedIndex, copiedAll, lpc, lrequest>>
       ELSE /\ loading' = TRUE
            /\ result' = NULL
            /\ copiedIndex' = NULL
            /\ copiedAll' = FALSE
            /\ lpc' = "fetch"
            /\ lrequest' = Some([domain |-> trim(lookupDomain),
                                 recordType |-> recordType, provider |-> lookupProvider])
    /\ UNCHANGED <<lookupDomain, recordType, lookupProvider, lwrites, ltimers>>
    /\ UNCHANGED notLookup

\* line 74: fetch resolves with a response
fetchResolved ==
    /\ lpc = "fetch"
    /\ lpc' = "json"
    /\ UNCHANGED <<lookupDomain, recordType, lookupProvider, loading, result, copiedIndex, copiedAll, lrequest, lwrites, ltimers>>
    /\ UNCHANGED notLookup

\* lines 77-89: fetch rejects; catch, then finally
fetchRejected ==
    /\ lpc = "fetch"
    /\ \E e \in FetchErrors : result' = caughtResult(lrequest.val, e)
    /\ loading' = FALSE
    /\ lpc' = "idle"
    /\ lrequest' = NULL
    /\ UNCHANGED <<lookupDomain, recordType, lookupProvider, copiedIndex, copiedAll, lwrites, ltimers>>
    /\ UNCHANGED notLookup

\* lines 75-76 and 87-89: the body decodes; setResult(data), then finally
jsonResolved ==
    /\ lpc = "json"
    /\ \E data \in RouteBodies(lrequest.val) : result' = data
    /\ loading' = FALSE
    /\ lpc' = "idle"
    /\ lrequest' = NULL
    /\ UNCHANGED <<lookupDomain, recordType, lookupProvider, copiedIndex, copiedAll, lwrites, ltimers>>
    /\ UNCHANGED notLookup

\* lines 77-89: the body does not decode; catch, then finally
jsonRejected ==
    /\ lpc = "json"
    /\ \E e \in JsonErrors : result' = caughtResult(lrequest.val, e)
    /\ loading' = FALSE
    /\ lpc' = "idle"
    /\ lrequest' = NULL
    /\ UNCHANGED <<lookupDomain, recordType, lookupProvider, copiedIndex, copiedAll, lwrites, ltimers>>
    /\ UNCHANGED notLookup

\* the copy buttons are rendered for a successful result with records
CopyShown == result /= NULL /\ result.success /\ Len(result.records) > 0

Outstanding == lwrites.all + lwrites.index + ltimers.all + ltimers.index

\* lines 98-100 and 113-127: copyAllRecords, or the button of record 0, up
\* to `await navigator.clipboard.writeText(text)`
copyToClipboard ==
    /\ CopyShown
    /\ Outstanding < MaxCopies
    /\ \E target \in {"all", "index"} : lwrites' = [lwrites EXCEPT ![target] = @ + 1]
    /\ UNCHANGED <<lookupDomain, recordType, lookupProvider, loading, result, copiedIndex, copiedAll, lpc, lrequest, ltimers>>
    /\ UNCHANGED notLookup

\* lines 101-107: the write resolves
copyWritten ==
    /\ \E target \in {"all", "index"} :
        /\ lwrites[target] > 0
        /\ lwrites' = [lwrites EXCEPT ![target] = @ - 1]
        /\ ltimers' = [ltimers EXCEPT ![target] = @ + 1]
        /\ IF target = "index"
           THEN copiedIndex' = Some(0) /\ UNCHANGED copiedAll
           ELSE copiedAll' = TRUE /\ UNCHANGED copiedIndex
    /\ UNCHANGED <<lookupDomain, recordType, lookupProvider, loading, result, lpc, lrequest>>
    /\ UNCHANGED notLookup

\* lines 108-110: the write rejects; only console.error
copyFailed ==
    /\ \E target \in {"all", "index"} :
        /\ lwrites[target] > 0
        /\ lwrites' = [lwrites EXCEPT ![target] = @ - 1]
    /\ UNCHANGED <<lookupDomain, recordType, lookupProvider, loading, result, copiedIndex, copiedAll, lpc, lrequest, ltimers>>
    /\ UNCHANGED notLookup

\* lines 104 and 107: a 2-second timer fires
copiedTimeout ==
    /\ \E target \in {"all", "index"} :
        /\ ltimers[target] > 0
        /\ ltimers' = [ltimers EXCEPT ![target] = @ - 1]
        /\ IF target = "index"
           THEN copiedIndex' = NULL /\ UNCHANGED copiedAll
           ELSE copiedAll' = FALSE /\ UNCHANGED copiedIndex
    /\ UNCHANGED <<lookupDomain, recordType, lookupProvider, loading, result, lpc, lrequest, lwrites>>
    /\ UNCHANGED notLookup

\* lines 143-148, from the Clear button (disabled while loading)
clearResults ==
    /\ ~loading
    /\ lookupDomain' = ""
    /\ result' = NULL
    /\ copiedIndex' = NULL
    /\ copiedAll' = FALSE
    /\ UNCHANGED <<recordType, lookupProvider, loading, lpc, lrequest, lwrites, ltimers>>
    /\ UNCHANGED notLookup

NextLookup ==
    \/ setDomain
    \/ setRecordType
    \/ setProvider
    \/ performLookup
    \/ fetchResolved
    \/ fetchRejected
    \/ jsonResolved
    \/ jsonRejected
    \/ copyToClipboard
    \/ copyWritten
    \/ copyFailed
    \/ copiedTimeout
    \/ clearResults

SpecLookup == InitLookup /\ [][NextLookup]_vars

\* every request the component sends is settled: fetch resolves or rejects,
\* and the body of a response decodes or fails to
SpecLookupFair ==
    /\ SpecLookup
    /\ WF_vars(fetchResolved \/ fetchRejected)
    /\ WF_vars(jsonResolved \/ jsonRejected)

-----------------------------------------------------------------------------
(* Properties *)

IsCurl(t0) == t0 /= NULL /\ toLowerCase(t0.val) = "curl"

\* C1, as stated: for every input whose first token is curl (in any letter
\* case) and which has a further token not starting with "-", parseCurl
\* returns a model whose url is the first such token.
C1_UrlIsFirstPlainToken ==
    (pc = "done" /\ IsCurl(first) /\ firstPlain /= NULL)
        => (parsed /= NULL /\ parsed.url = firstPlain.val)

\* C1, amended: for every input whose first token is curl (in any letter
\* case) and which has a further non-empty token that does not start with "-"
\* and is not the argument of an argument-taking flag, parseCurl returns a
\* model whose url is the first such token.
C1_UrlIsFirstPositional ==
    (pc = "done" /\ IsCurl(first) /\ firstPositional /= NULL)
        => (parsed /= NULL /\ parsed.url = firstPositional.val)

\* an earlier token without "-" was the argument of a flag, a later one is the url
C1_Witness ==
    /\ pc = "done"
    /\ first = Some("CURL")
    /\ firstPlain = Some("a=1")
    /\ firstPositional = Some("https://x.io/a")
    /\ parsed /= NULL
    /\ parsed.url = "https://x.io/a"

\* C2: parseCurl returns null when the token array is empty or its first
\* token, lower-cased, is not "curl", and it reads no later token then: the
\* cursor has not moved and no local has been set.
C2_RejectsNonCurl ==
    (pc /= "start" /\ ~IsCurl(first))
        => /\ pc = "done"
           /\ parsed = NULL
           /\ i = 1
           /\ url = "" /\ method = "" /\ headers = <<>> /\ body = NULL /\ auth = NULL
           /\ firstPlain = NULL /\ trailing = NULL

C2_Witness == pc = "done" /\ first = Some("wget") /\ parsed = NULL

\* C3: every model parseCurl returns has a non-empty url; a scan that ends
\* with no url captured returns null.
C3_ModelHasUrl ==
    /\ parsed /= NULL => parsed.url /= ""
    /\ (pc = "done" /\ url = "") => parsed = NULL

\* the scan set a body and credentials, but no url
C3_Witness ==
    /\ pc = "done"
    /\ IsCurl(first)
    /\ url = ""
    /\ body /= NULL
    /\ auth /= NULL
    /\ parsed = NULL

\* C4, as stated: with no method from -X/--request the model's method is GET
\* when the body is null and POST when it is not null (the empty string
\* included); with a method from -X/--request it is that method, upper-cased.
C4_MethodInference ==
    (pc = "done" /\ parsed /= NULL)
        => parsed.method =
            IF method /= "" THEN method
            ELSE IF body = NULL THEN "GET" ELSE "POST"

Count(h, k) == Cardinality({j \in 1..Len(h) : h[j][1] = k})

\* C5, as stated: the headers hold exactly one entry per name a -H/--header
\* flag wrote last, with the value of the last flag that named it; name and
\* value are the trimmed parts before and after the first colon.
C5_HeaderLastWriteWins ==
    \A e \in lastH : Count(headers, e[1]) = 1 /\ headersGet(headers, e[1]) = Some(e[2])

\* C6, as stated: --form/-F sets the body only while it is null and leaves a
\* body that is not null unchanged; each -d/--data* flag sets the body.
C6_FormFirstWins ==
    [][/\ (FlagForm /\ body /= NULL) => body' = body
       /\ (FlagForm /\ body = NULL) => body' /= NULL
       /\ FlagData => body' /= NULL]_vars

Names(h) == {h[j][1] : j \in 1..Len(h)}

\* h2 is h1 with the entries of `written` set, every other entry as it was
WrittenOnly(h1, h2, written) ==
    /\ Names(h2) = Names(h1) \cup {e[1] : e \in written}
    /\ \A e \in written : Count(h2, e[1]) = 1 /\ headersGet(h2, e[1]) = Some(e[2])
    /\ \A k \in Names(h1) \ {e[1] : e \in written} : headersGet(h2, k) = headersGet(h1, k)

\* C7: an argument-taking flag that is the last token does not end the parse
\* in failure: the iteration binds the empty string (method "", body "",
\* user "" and password "", Cookie/User-Agent/Referer ""; -H writes nothing,
\* --form/-F binds "" under its own rule) and leaves every other local as it
\* was, and the value returned is null exactly when no url was captured.
C7_TrailingFlagBindsEmpty ==
    [][/\ (pc = "scan" /\ trailing = NULL /\ trailing' /= NULL) =>
            LET t == trailing'.val
            IN  /\ pc' = "scan"
                /\ url' = url
                /\ method' = IF t \in RequestFlags THEN "" ELSE method
                /\ body' =
                    IF t \in DataFlags \cup JsonFlags THEN Some("")
                    ELSE IF t \in FormFlags /\ (body = NULL \/ body = Some("")) THEN Some("")
                    ELSE body
                /\ auth' = IF t \in UserFlags THEN [user |-> "", password |-> ""] ELSE auth
                /\ WrittenOnly(headers, headers',
                        IF t \in JsonFlags
                        THEN {<<"Content-Type", "application/json">>,
                              <<"Accept", "application/json">>}
                        ELSE IF t \in CookieFlags THEN {<<"Cookie", "">>}
                        ELSE IF t \in UserAgentFlags THEN {<<"User-Agent", "">>}
                        ELSE IF t \in RefererFlags THEN {<<"Referer", "">>}
                        ELSE {})
       /\ (pc = "scan" /\ pc' = "done") => ((parsed' = NULL) <=> (url = ""))]_vars

\* `curl https://x.io/a ... -d`: the model has the empty body
C7_Witness ==
    /\ pc = "done"
    /\ trailing /= NULL
    /\ trailing.val \in DataFlags
    /\ parsed /= NULL
    /\ parsed.url = "https://x.io/a"
    /\ parsed.body = Some("")

\* a header named Content-Type in any letter case whose value contains sub
ContentTypeHas(h, sub) ==
    \E j \in 1..Len(h) : toLowerCase(h[j][1]) = "content-type" /\ includes(h[j][2], sub)

\* C8, as stated: isJson holds exactly when the Content-Type value contains
\* application/json or the body's first non-blank character is "{" or "[";
\* isFormData exactly when the Content-Type value contains
\* application/x-www-form-urlencoded; whatever the letter case of the name.
C8_Classification ==
    parsed /= NULL =>
        /\ parsed.isJson <=>
            \/ ContentTypeHas(parsed.headers, "application/json")
            \/ /\ parsed.body /= NULL
               /\ \/ startsWith(trimStart(parsed.body.val), "{")
                  \/ startsWith(trimStart(parsed.body.val), "[")
        /\ parsed.isFormData <=>
            ContentTypeHas(parsed.headers, "application/x-www-form-urlencoded")

\* the construct with which the target's output sets the request body
HasBodyConstruct(out, l) ==
    IF l = "js-fetch" THEN includes(out, "\n  body: ")
    ELSE IF l = "js-axios" THEN includes(out, "\n  data: ")
    ELSE IF l = "python-requests"
    THEN includes(out, "\npayload = ") \/ includes(out, "\ndata = ")
    ELSE IF l = "go" THEN includes(out, "strings.NewReader(")
    ELSE includes(out, "\nconst postData = ")

\* the nodejs generator took its fallback path
Fallback == lang = Some("nodejs") /\ ~parseUrl(parsed.url).ok

\* C9, as stated: in each generator the output has a body construct exactly
\* when the model's body is not null, the empty string included.
C9_BodyConstructIffNotNull ==
    (pc = "generated" /\ ~Fallback)
        => (HasBodyConstruct(output.val, lang.val) <=> parsed.body /= NULL)

Occurrences(s, sub) ==
    Cardinality({k \in 1..(Len(s) - Len(sub) + 1) : SubSeq(s, k, k + Len(sub) - 1) = sub})

\* the target's own construct for basic-auth credentials
HasNativeAuth(out, l) ==
    IF l = "js-axios" THEN includes(out, "\n  auth: {")
    ELSE IF l = "python-requests" THEN includes(out, "auth=(")
    ELSE IF l = "go" THEN includes(out, "req.SetBasicAuth(")
    ELSE FALSE

\* C10, as stated: with auth present, fetch and nodejs render one
\* Authorization: Basic header and nothing else, axios, python-requests and
\* go render their native construct and no Authorization header; no output
\* has two Authorization entries.
C10_OneAuthMechanism ==
    (pc = "generated" /\ parsed.auth /= NULL /\ ~Fallback)
        => IF lang.val \in {"js-fetch", "nodejs"}
           THEN /\ Occurrences(output.val, "\"Authorization\"") = 1
                /\ includes(output.val, "\"Authorization\": \"Basic ")
           ELSE /\ HasNativeAuth(output.val, lang.val)
                /\ Occurrences(output.val, "\"Authorization\"") = 0


\* the body construct of the target with the body as a quoted string literal
BodyLiteral(out, l, b) ==
    IF l = "js-fetch" THEN includes(out, "\n  body: " \o jsStringify(b) \o ",\n")
    ELSE IF l = "js-axios" THEN includes(out, "\n  data: " \o jsStringify(b) \o ",\n")
    ELSE IF l = "python-requests"
    THEN \/ includes(out, "\npayload = " \o jsStringify(b) \o "\n")
         \/ includes(out, "\ndata = " \o jsStringify(b) \o "\n")
    ELSE IF l = "go" THEN includes(out, "\tbody := strings.NewReader(" \o jsStringify(b) \o ")\n")
    ELSE includes(out, "\nconst postData = " \o jsStringify(b) \o ";\n")

\* the skeleton the nodejs generator falls back to
FallbackSkeleton(u) ==
    "// Could not fully parse the URL: " \o u
        \o "\n// Please adjust hostname, path and port below."
        \o "\nconst https = require('https');"
        \o "\n// ... (manual setup required)"

\* C11, as stated: for every model and target generateCode returns a text; a
\* body classified as JSON that does not decode is rendered as a quoted
\* string literal by every generator, and so is a body not classified as
\* JSON (it never reaches the decoder); a url that does not parse makes the
\* nodejs generator return the fallback skeleton.
C11_GeneratorsNeverFail ==
    pc = "generated" =>
        /\ output /= NULL
        /\ output.val /= ""
        /\ (Fallback <=> output.val = FallbackSkeleton(parsed.url))
        /\ (/\ ~Fallback
            /\ parsed.body /= NULL
            /\ ~(parsed.isJson /\ jsonParse(parsed.body.val).ok))
                => BodyLiteral(output.val, lang.val, parsed.body.val)

\* the target's output names the method m
MethodRendered(out, l, m) ==
    IF l = "js-fetch" THEN includes(out, "\n  method: " \o jsStringify(m) \o ",\n")
    ELSE IF l = "js-axios"
    THEN includes(out, "\n  method: " \o jsStringify(toLowerCase(m)) \o ",\n")
    ELSE IF l = "python-requests"
    THEN includes(out, "\nresponse = requests." \o toLowerCase(m) \o "(url")
    ELSE IF l = "go" THEN includes(out, "http.NewRequest(" \o jsStringify(m) \o ", url, ")
    ELSE includes(out, "\n  method: " \o jsStringify(m) \o ",\n")

\* C15, as stated: the output leaves the method out exactly when the target
\* is fetch and the method is GET; every other generator renders it for
\* every model.
C15_MethodOmittedOnlyByFetchGet ==
    pc = "generated" =>
        (MethodRendered(output.val, lang.val, parsed.method)
            <=> ~(lang.val = "js-fetch" /\ parsed.method = "GET"))

\* C15, amended: as stated, except that the nodejs generator renders the
\* method only when `new URL` accepts the url; its fallback skeleton names
\* no method.
C15_MethodOmittedByFetchGetOrFallback ==
    pc = "generated" =>
        (MethodRendered(output.val, lang.val, parsed.method)
            <=> ~(lang.val = "js-fetch" /\ parsed.method = "GET") /\ ~Fallback)

\* fetch output for an explicit method, and for GET
C15_Witness ==
    /\ pc = "generated"
    /\ lang = Some("js-fetch")
    /\ parsed.method = "PUT"
    /\ includes(output.val, "\n  method: \"PUT\",\n")

\* a step in which convert ran
ConvertStep == handleInputChange \/ handleLanguageChange \/ handleLoadSample

C13_RoundTrip ==
    (tpc = "done" /\ tseq /= NULL) => ttokens = tseq.tokens

\* a token the writing-out preserves: not empty; without whitespace it does
\* not begin with a quote character; with whitespace it holds neither the
\* quote character it is put between nor a backslash
RoundSafe(tok, q) ==
    /\ tok /= ""
    /\ ~HasSpace(tok) => CharAt(tok, 1) \notin {"'", "\""}
    /\ HasSpace(tok) => PosFrom(tok, q, 1) = 0 /\ PosFrom(tok, "\\", 1) = 0

\* C13, amended: the round trip gives the sequence back when every token is
\* not empty, a token without whitespace does not begin with a quote
\* character, and a token with whitespace holds neither the quote character
\* used for it nor a backslash.
C13_RoundTripOfSafeTokens ==
    (/\ tpc = "done"
     /\ tseq /= NULL
     /\ \A k \in 1..Len(tseq.tokens) : RoundSafe(tseq.tokens[k], tseq.quote))
        => ttokens = tseq.tokens

\* a quoted token and a token with a quote character inside make the trip
C13_Witness ==
    /\ tpc = "done"
    /\ tseq = [tokens |-> <<"a n", "a'n">>, quote |-> "\""]
    /\ tinput = "\"a n\" a'n"
    /\ ttokens = <<"a n", "a'n">>

\* the cursor at the first character of the token the next iteration reads
TokStart == skipWhitespace(ts, ti)

\* C14: tokenizeCurl ends on every input: each iteration of the scan loop
\* emits one token and moves the cursor forward by at least one character
\* and never further than one past the end, so the loop reaches its return;
\* an empty or whitespace-only input returns no token; an unterminated quote
\* runs to the end of the text and emits what it collected as the last token.
C14_TokenizerTerminates ==
    /\ [][(tpc = "scan" /\ tpc' = "scan") =>
            /\ ti' >= ti + 1
            /\ ti' <= Len(ts) + 1
            /\ Len(ttokens') = Len(ttokens) + 1
            /\ SubSeq(ttokens', 1, Len(ttokens)) = ttokens
            /\ (CharAt(ts, TokStart + 1) = "'" /\ PosFrom(ts, "'", TokStart + 2) = 0) =>
                    /\ ttokens'[Len(ttokens')] = SubSeq(ts, TokStart + 2, Len(ts))
                    /\ ti' = Len(ts) + 1
            /\ (/\ CharAt(ts, TokStart + 1) = "\""
                /\ PosFrom(ts, "\"", TokStart + 2) = 0
                /\ PosFrom(ts, "\\", TokStart + 2) = 0) =>
                    /\ ttokens'[Len(ttokens')] = SubSeq(ts, TokStart + 2, Len(ts))
                    /\ ti' = Len(ts) + 1
            /\ ti' = Len(ts) + 1 => CharAt(ts, TokStart + 1) \in {"'", "\""}]_vars
    /\ [](tpc = "done" =>
            /\ ti >= Len(ts)
            /\ trim(tinput) = "" => ttokens = <<>>)
    /\ <>(tpc = "done")

\* an input that ends with an opening single quote after a token
C14_Witness ==
    /\ tpc = "done"
    /\ tinput = "a '"
    /\ ttokens = <<"a", "">>

\* C17, as stated: the nodejs output names the hostname and the path with the
\* query, and has a `port:` line exactly when the url's port (443 by default
\* for https, 80 for every other protocol) differs from that default,
\* whatever the protocol.
C17_NodePortRule ==
    (pc = "generated" /\ lang = Some("nodejs") /\ ~Fallback) =>
        LET u == parseUrl(parsed.url)
            protocol == SubSeq(u.protocol, 1, Len(u.protocol) - 1)
            dflt == IF protocol = "https" THEN "443" ELSE "80"
            port == IF u.port /= "" THEN u.port ELSE dflt
            path == u.pathname \o u.search
        IN  /\ includes(output.val, "\n  hostname: " \o jsStringify(u.hostname) \o ",\n")
            /\ includes(output.val, "\n  path: " \o jsStringify(IF path = "" THEN "/" ELSE path) \o ",\n")
            /\ includes(output.val, "\n  port: " \o port \o ",\n") <=> port /= dflt

\* one quoted `"name": "value",` line per entry
RECURSIVE QuotedLines(_)
QuotedLines(entries) ==
    IF entries = <<>> THEN ""
    ELSE "    " \o jsStringify(entries[1][1]) \o ": " \o jsStringify(entries[1][2]) \o ",\n"
            \o QuotedLines(Tail(entries))

\* C18, as stated: with a body the headers block of the nodejs output lists
\* the user's headers, then Content-Length as the expression
\* Buffer.byteLength(postData), then Authorization when auth is present;
\* without a body it lists the user's headers and Authorization only.
C18_NodeHeaderOrder ==
    (pc = "generated" /\ lang = Some("nodejs") /\ ~Fallback) =>
        LET block ==
                QuotedLines(ObjectEntries(parsed.headers))
                    \o (IF parsed.body /= NULL
                        THEN "    \"Content-Length\": Buffer.byteLength(postData),\n"
                        ELSE "")
                    \o (IF parsed.auth /= NULL
                        THEN QuotedLines(<< <<"Authorization", basicAuth(parsed.auth)>> >>)
                        ELSE "")
        IN  IF block = "" THEN ~includes(output.val, "\n  headers: {\n")
            ELSE includes(output.val, "\n  headers: {\n" \o block \o "  },\n")

\* the position in the trimmed input t of the character that became the
\* k-th character of s, counting from position p
RECURSIVE rawIndex(_, _, _)
rawIndex(t, p, k) ==
    IF k <= 1 THEN p
    ELSE IF p + 1 <= Len(t) /\ SubSeq(t, p, p + 1) = "\\\n" THEN rawIndex(t, p + 2, k - 1)
    ELSE IF p + 2 <= Len(t) /\ SubSeq(t, p, p + 2) = "\\\r\n" THEN rawIndex(t, p + 3, k - 1)
    ELSE rawIndex(t, p + 1, k - 1)

\* the token the iteration emitted
Emitted == ttokens'[Len(ttokens')]

\* the iteration reads a token that opens with the quote character q
QuoteIteration(q) ==
    /\ tpc = "scan"
    /\ tpc' = "scan"
    /\ CharAt(ts, TokStart + 1) = q

\* C19, as stated: the token of a single-quoted run is the text of the input
\* between the opening quote and the next single quote, unchanged, a
\* backslash followed by a newline included.
C19_SingleQuotedRawText ==
    [][QuoteIteration("'") =>
        LET t == trim(tinput)
            open == rawIndex(t, 1, TokStart + 1)
            close == PosFrom(t, "'", open + 1)
        IN  close /= 0 => Emitted = SubSeq(t, open + 1, close - 1)]_vars

\* C19, amended: the token of a single-quoted run is the text of s (the
\* input after the trim and after every backslash-newline of it, quoted or
\* not, became a space) between the opening quote and the next single
\* quote, unchanged: no escape processing inside single quotes.
C19_SingleQuotedCollapsedText ==
    [][QuoteIteration("'") =>
        LET close == PosFrom(ts, "'", TokStart + 2)
        IN  close /= 0 =>
                /\ Emitted = SubSeq(ts, TokStart + 2, close - 1)
                /\ ti' = close]_vars

\* a backslash and an n between single quotes stay two characters
C19_Witness ==
    /\ tpc = "done"
    /\ tinput = "'\\n'"
    /\ ttokens = <<"\\n">>

\* what the character after a backslash stands for in double quotes
Unescaped(c) ==
    CASE c = "n" -> "\n"
      [] c = "t" -> "\t"
      [] c = "r" -> "\r"
      [] OTHER -> c

\* the double-quoted run of text that starts at position p: its token, and
\* the position of the unescaped double quote that ends it (0 when none does)
RECURSIVE dqRun(_, _)
dqRun(text, p) ==
    IF p > Len(text) THEN [tok |-> "", close |-> 0]
    ELSE IF CharAt(text, p) = "\"" THEN [tok |-> "", close |-> p]
    ELSE IF CharAt(text, p) = "\\" /\ p < Len(text)
    THEN LET r == dqRun(text, p + 2)
         IN  [tok |-> Unescaped(CharAt(text, p + 1)) \o r.tok, close |-> r.close]
    ELSE LET r == dqRun(text, p + 1)
         IN  [tok |-> CharAt(text, p) \o r.tok, close |-> r.close]

\* C20, as stated: in a double-quoted run of the input a backslash with n, t
\* or r gives newline, tab or carriage return, a backslash with any other
\* character gives that character, and the run ends at the next unescaped
\* double quote.
C20_DoubleQuotedRawText ==
    [][QuoteIteration("\"") =>
        LET t == trim(tinput)
            r == dqRun(t, rawIndex(t, 1, TokStart + 1) + 1)
        IN  r.close /= 0 => Emitted = r.tok]_vars

\* C20, amended: the same rules over s, where every backslash-newline of the
\* input has already become one space (so a backslash before a newline never
\* reaches the run, and a backslash left before that space gives the space).
C20_DoubleQuotedCollapsedText ==
    [][QuoteIteration("\"") =>
        LET r == dqRun(ts, TokStart + 2)
        IN  r.close /= 0 => Emitted = r.tok /\ ti' = r.close]_vars

\* an escaped double quote does not end the run
C20_Witness ==
    /\ tpc = "done"
    /\ tinput = "\"\\\"\""
    /\ ttokens = <<"\"">>

\* GET has returned for a request that passed validation
DnsDone == dpc = "done" /\ dqueried /= <<>>

\* C16: DNS lookup route, provider fallback.  For a valid domain and record
\* type: when the query to the first provider fails the other provider is
\* queried exactly once (so there are two queries, to different providers, and
\* never more); when a provider answered, the response's provider field names
\* it; and the route answers success = false with status 500 and no records
\* only if both providers failed.
C16_ProviderFallback ==
    /\ Len(dqueried) <= 2
    /\ dfailed /= <<>> =>
           /\ Len(dqueried) = 2
           /\ dqueried[1] = dfailed[1]
           /\ dqueried[2] /= dqueried[1]
    /\ DnsDone =>
           LET r == dresponse[1]
           IN  /\ Len(dfailed) < Len(dqueried) => r.provider = dqueried[Len(dqueried)]
               /\ (r.status = 500 /\ ~r.success /\ r.records = <<>>) => Len(dfailed) = 2
               /\ Len(dfailed) = 2 => (r.status = 500 /\ ~r.success /\ r.records = <<>>)

\* C26: UI consistency.  In every state of the component the displayed output
\* is generateCode(parseCurl(curlInput), language) when the current input
\* parses and the empty string when it does not, whatever input changes,
\* language changes, sample loads, clears, copy clicks, clipboard results and
\* timer expiries came before.
C26_OutputIsOfCurrentInput ==
    uiOutput = (IF parseCurl(curlInput) = NULL THEN ""
                ELSE generateCode(parseCurl(curlInput), language))

\* a command converted for a language chosen after it was typed, with a
\* rejected clipboard write behind it
C26_Witness ==
    /\ curlInput = " CURL https://x.io/a "
    /\ language = "python-requests"
    /\ uiOutput = generateCode(parseCurl("CURL https://x.io/a"), "python-requests")
    /\ uiError = CopyError

\* C27, as stated: the error and the output are never both non-empty.
C27_ErrorOrOutput == ~(uiError /= "" /\ uiOutput /= "")

\* the headers block of a nodejs output: from the line `  headers: {` to the
\* end of the text ("" when there is no such line)
HeadersBlock(out) ==
    LET at == {k \in 1..(Len(out) - 13) : SubSeq(out, k, k + 13) = "\n  headers: {\n"}
    IN  IF at = {} THEN "" ELSE SubSeq(out, Least(at), Len(out))

\* C29, as stated: in the nodejs output every header of the model is one
\* quoted line `"name": "value",`, no name opens more than one line of the
\* headers block, and the only unquoted entry is the computed Content-Length.
C29_NodeHeadersQuoted ==
    (pc = "generated" /\ lang = Some("nodejs") /\ ~Fallback) =>
        LET block == HeadersBlock(output.val)
        IN  /\ \A k \in DOMAIN parsed.headers :
                    /\ includes(block, "\n" \o QuotedLines(<<parsed.headers[k]>>))
                    /\ Occurrences(block, "\n    " \o jsStringify(parsed.headers[k][1]) \o ": ") = 1
            /\ Occurrences(block, "\n    \"Content-Length\": ")
                    = Occurrences(block, "\n    \"Content-Length\": \"")
                        + Occurrences(block, "\n    \"Content-Length\": Buffer.byteLength(postData),\n")

\* where a generator's output first names the header k (0 when it does not)
HeaderAt(out, l, k) ==
    LET mark == IF l = "go" THEN "\treq.Header.Set(" \o jsStringify(k) \o ", "
                ELSE "\n    " \o jsStringify(k) \o ": "
        at == {j \in 1..(Len(out) - Len(mark) + 1) : SubSeq(out, j, j + Len(mark) - 1) = mark}
    IN  IF at = {} THEN 0 ELSE Least(at)

\* C23, as stated: every generator renders the headers of the model in the
\* order in which their names were first set; parsed.headers lists them in
\* that order.
C23_HeadersInInsertionOrder ==
    (pc = "generated" /\ ~Fallback) =>
        /\ \A k \in DOMAIN parsed.headers :
                HeaderAt(output.val, lang.val, parsed.headers[k][1]) > 0
        /\ \A k \in DOMAIN parsed.headers : \A j \in DOMAIN parsed.headers :
                k < j => HeaderAt(output.val, lang.val, parsed.headers[k][1])
                            < HeaderAt(output.val, lang.val, parsed.headers[j][1])

\* C28, as stated: once handleClear has run copySuccess stays false until a
\* copy is started again, whatever pending clipboard write resolves and
\* whatever timer fires in between; and `Copied!` (copySuccess) is never
\* shown while the output is empty.
C28_ClearedStaysUncopied ==
    /\ cleared => ~copySuccess
    /\ copySuccess => uiOutput /= ""

\* the Python literal of a decoded JSON value at the indentation cur, four
\* spaces a level: True, False and None for true, false and null, everything
\* else as JSON.stringify writes it
RECURSIVE pyValue(_, _)
RECURSIVE pyItems(_, _)
RECURSIVE pyMembers(_, _)

pyValue(v, cur) ==
    IF v.t = "null" THEN "None"
    ELSE IF v.t = "true" THEN "True"
    ELSE IF v.t = "false" THEN "False"
    ELSE IF v.t = "num" THEN v.s
    ELSE IF v.t = "str" THEN jsStringify(v.s)
    ELSE IF v.t = "arr"
    THEN IF v.items = <<>> THEN "[]"
         ELSE "[\n" \o pyItems(v.items, cur \o "    ") \o "\n" \o cur \o "]"
    ELSE IF v.members = <<>> THEN "{}"
         ELSE "{\n" \o pyMembers(ObjectEntries(v.members), cur \o "    ") \o "\n" \o cur \o "}"

pyItems(items, cur) ==
    cur \o pyValue(items[1], cur)
        \o (IF Len(items) = 1 THEN "" ELSE ",\n" \o pyItems(Tail(items), cur))

pyMembers(ms, cur) ==
    cur \o jsStringify(ms[1][1]) \o ": " \o pyValue(ms[1][2], cur)
        \o (IF Len(ms) = 1 THEN "" ELSE ",\n" \o pyMembers(Tail(ms), cur))

\* C22, as stated: when the body is classified JSON and decodes, the payload
\* line of the python-requests output is the decoded value with every true,
\* false and null spelled True, False and None, at any depth, in objects and
\* in arrays, and with the string values as they are.
C22_PythonLiterals ==
    (/\ pc = "generated"
     /\ lang = Some("python-requests")
     /\ parsed.body /= NULL
     /\ parsed.isJson
     /\ jsonParse(parsed.body.val).ok) =>
        includes(output.val,
                 "\npayload = " \o pyValue(jsonParse(parsed.body.val).v, "") \o "\n\n")

\* the loop body runs on the token at the cursor of a given array
BodyRunsOn(flags) ==
    /\ pc = "scan"
    /\ tokenArray /= NULL
    /\ i' /= i
    /\ tokenArray.val[i + 1] \in flags

\* tokens[i + 1] of a given array, as `tokens[++i]` reads it
Following == IF i + 1 < Len(tokenArray.val) THEN Some(tokenArray.val[i + 2]) ELSE NULL

\* C21: the iteration that reads --json sets the body to the token after it
\* (the empty string when there is none), whatever the body was, and sets
\* Content-Type and Accept to application/json, whatever they were; every
\* other header keeps its value.
C21_JsonFlag ==
    [][BodyRunsOn(JsonFlags) =>
          /\ body' = Some(OrEmpty(Following))
          /\ headersGet(headers', "Content-Type") = Some("application/json")
          /\ headersGet(headers', "Accept") = Some("application/json")
          /\ \A k \in Names(headers) \ {"Content-Type", "Accept"} :
                 headersGet(headers', k) = headersGet(headers, k)
          /\ Names(headers') = Names(headers) \cup {"Content-Type", "Accept"}]_vars

\* --json after a Content-Type header and a body: both are overwritten
C21_Witness ==
    /\ pc = "done"
    /\ tokenArray = Some(<<"curl", "-H", "Content-Type: text/plain", "-d", "a=1",
                           "--json", "-L", "https://x">>)
    /\ parsed /= NULL
    /\ parsed.body = Some("-L")
    /\ parsed.headers = <<<<"Content-Type", "application/json">>,
                          <<"Accept", "application/json">>>>

\* C25: in every iteration the cursor moves forward, by two on a flag that
\* takes an argument and by one on any other token; the token after such a
\* flag is never read at the cursor, so it is neither matched against the
\* flag table nor taken as the URL; and the scan is over with the cursor at
\* most one past the end.
C25_CursorSteps ==
    [][(pc = "scan" /\ tokenArray /= NULL /\ i' /= i) =>
          /\ i' = i + (IF tokenArray.val[i + 1] \in ArgFlags THEN 2 ELSE 1)
          /\ visited' = visited \cup {i}
          /\ i \notin visited
          /\ \A k \in visited' :
                 tokenArray.val[k + 1] \in ArgFlags => (k + 1) \notin visited'
          /\ tokenArray.val[i + 1] \in ArgFlags => url' = url
          /\ i' <= Len(tokenArray.val) + 1]_vars

\* `curl -d -X https://x`: the body is -X and the URL is https://x
C25_Witness ==
    /\ pc = "done"
    /\ tokenArray = Some(<<"curl", "-d", "-X", "https://x">>)
    /\ visited = {1, 3}
    /\ parsed /= NULL
    /\ parsed.body = Some("-X")
    /\ parsed.url = "https://x"
    /\ parsed.method = "POST"

\* a token no branch of the chain takes
Unrecognized(tok) == tok \notin ArgFlags \cup IgnoredFlags /\ startsWith(tok, "-")

\* the array without its element at the 0-based index k
Without(arr, k) == SubSeq(arr, 1, k) \o SubSeq(arr, k + 2, Len(arr))

\* what parseCurl returns for a token array
parseTokens(arr) ==
    LET st == scanFlags(arr, 1,
                        [url |-> "", method |-> "", headers |-> <<>>,
                         body |-> NULL, auth |-> NULL])
    IN  IF notACommand(IF arr = <<>> THEN NULL ELSE Some(arr[1])) THEN NULL
        ELSE returnValue(st.url, st.method, st.headers, st.body, st.auth)

\* C24, as stated: for any token array and any unrecognized token starting
\* with "-" in it (after tokens[0]), the result is the result for the array
\* without that token.
C24_AnyUnrecognizedRemovable ==
    (pc = "done" /\ tokenArray /= NULL) =>
        \A k \in 1..(Len(tokenArray.val) - 1) :
            Unrecognized(tokenArray.val[k + 1]) =>
                parsed = parseTokens(Without(tokenArray.val, k))

\* C24, amended: an unrecognized token starting with "-" that the loop reads
\* at its cursor changes none of url, method, headers, body, auth and moves
\* the cursor by one; and the result for the array is the result for the
\* array without that token.  (The same text after a flag that takes an
\* argument is that flag's argument and is not read at the cursor.)
C24_UnrecognizedAtCursorIgnored ==
    /\ [][BodyRunsOn({tokenArray.val[i + 1]}) /\ Unrecognized(tokenArray.val[i + 1]) =>
              /\ <<url, method, headers, body, auth>>' = <<url, method, headers, body, auth>>
              /\ i' = i + 1]_vars
    /\ []((pc = "done" /\ tokenArray /= NULL) =>
              \A k \in visited :
                  Unrecognized(tokenArray.val[k + 1]) =>
                      parsed = parseTokens(Without(tokenArray.val, k)))

\* an unrecognized flag read at the cursor twice, around the URL
C24_Witness ==
    /\ pc = "done"
    /\ tokenArray = Some(<<"curl", "-d", "a=1", "--foo", "https://x", "--foo">>)
    /\ visited = {1, 3, 4, 5}
    /\ parsed = parseTokens(<<"curl", "-d", "a=1", "https://x">>)
    /\ parsed /= NULL

=============================================================================
